---- MODULE Spec2Model ----
(***************************************************************************)
(* avrocado: the registry-backed codec cache (CodecRegistry), its wire     *)
(* header, the schema registry it talks to and the record codec it wraps.  *)
(*                                                                         *)
(* Bytes are integers 0..255 and byte strings are sequences of them.       *)
(* Go strings are byte sequences too.  A schema text is one of the JSON    *)
(* texts of the tests, named by a short tag.                               *)
(***************************************************************************)
EXTENDS Integers, Sequences, FiniteSets, TLC

VARIABLES store, newID, cache, last

vars == <<store, newID, cache, last>>

(***************************************************************************)
(* Bounds of the model                                                     *)
(***************************************************************************)
\* registrations the registry accepts in one run
MaxRegs == 2
\* registry calls that may succeed before the transport fails (0..MaxNet)
MaxNet == 3

(***************************************************************************)
(* Program constants                                                       *)
(***************************************************************************)
MagicByte == 0
UnknownID == -1
UnknownVersion == -1

(***************************************************************************)
(* Schemas.  V1 = Person{name:string, age:int}; V2 adds height:int with    *)
(* default 150; BAD is the text "{}" that the registry stores but no codec *)
(* can be built from.                                                      *)
(***************************************************************************)
SchemaV1 == "V1"
SchemaV2 == "V2"
SchemaBad == "BAD"
EmptySchema == ""

Texts == {SchemaV1, SchemaV2, SchemaBad}

Field(n, t, hd, d) == [name |-> n, type |-> t, hasDefault |-> hd, default |-> d]

SchemaFields(text) ==
    CASE text = SchemaV1 -> << Field("name", "string", FALSE, 0),
                               Field("age", "int", FALSE, 0) >>
      [] text = SchemaV2 -> << Field("name", "string", FALSE, 0),
                               Field("age", "int", FALSE, 0),
                               Field("height", "int", TRUE, 150) >>
      [] OTHER -> << >>

(***************************************************************************)
(* Values.  A native map (map[string]interface{}) is a record of the keys  *)
(* it holds and the value under each key (absent keys hold the zero        *)
(* value).  A Person is the Go struct of the tests.                        *)
(***************************************************************************)
Keys == {"name", "age", "height"}

NativeMap(ks, n, a, h) ==
    [kind |-> "map", keys |-> ks,
     name |-> IF "name" \in ks THEN n ELSE << >>,
     age |-> IF "age" \in ks THEN a ELSE 0,
     height |-> IF "height" \in ks THEN h ELSE 0]

EmptyMap == NativeMap({}, << >>, 0, 0)

Person(n, a) == [kind |-> "Person", Name |-> n, Age |-> a]

ZeroPerson == Person(<< >>, 0)

Get(m, k) ==
    CASE k = "name" -> m.name
      [] k = "age" -> m.age
      [] k = "height" -> m.height

Put(m, k, v) ==
    CASE k = "name" -> [m EXCEPT !.keys = @ \cup {k}, !.name = v]
      [] k = "age" -> [m EXCEPT !.keys = @ \cup {k}, !.age = v]
      [] k = "height" -> [m EXCEPT !.keys = @ \cup {k}, !.height = v]

(***************************************************************************)
(* The Avro binary layout of the wrapped codec: a long is a zig-zag        *)
(* base-128 varint, a string is its length as a long followed by its       *)
(* bytes, a record is its fields in schema order.                          *)
(***************************************************************************)
ZigZag(n) == IF n >= 0 THEN 2 * n ELSE -2 * n - 1

UnZigZag(u) == IF u % 2 = 0 THEN u \div 2 ELSE -((u + 1) \div 2)

RECURSIVE VarInt(_)
VarInt(u) ==
    IF u < 128 THEN << u >>
    ELSE << (u % 128) + 128 >> \o VarInt(u \div 128)

EncLong(n) == VarInt(ZigZag(n))

EncString(s) == EncLong(Len(s)) \o s

EncValue(type, v) == IF type = "string" THEN EncString(v) ELSE EncLong(v)

RECURSIVE ReadVarInt(_, _, _)
ReadVarInt(buf, acc, mult) ==
    IF buf = << >> THEN [err |-> TRUE, val |-> 0, rest |-> << >>]
    ELSE LET b == Head(buf) IN
         IF b < 128 THEN [err |-> FALSE, val |-> acc + b * mult, rest |-> Tail(buf)]
         ELSE ReadVarInt(Tail(buf), acc + (b - 128) * mult, mult * 128)

DecLong(buf) ==
    LET r == ReadVarInt(buf, 0, 1) IN
    [err |-> r.err, val |-> UnZigZag(r.val), rest |-> r.rest]

DecString(buf) ==
    LET r == DecLong(buf) IN
    IF r.err \/ r.val < 0 \/ r.val > Len(r.rest)
    THEN [err |-> TRUE, val |-> << >>, rest |-> << >>]
    ELSE [err |-> FALSE, val |-> SubSeq(r.rest, 1, r.val),
          rest |-> SubSeq(r.rest, r.val + 1, Len(r.rest))]

DecValue(type, buf) == IF type = "string" THEN DecString(buf) ELSE DecLong(buf)

\* goavro record encoder: fields in schema order; a key the map lacks takes
\* the field's default, and is an error when the schema declares none; keys
\* the schema does not know are ignored.
RECURSIVE BinaryFromNative(_, _)
BinaryFromNative(fields, m) ==
    IF fields = << >> THEN [err |-> FALSE, bytes |-> << >>]
    ELSE LET f == Head(fields)
             rest == BinaryFromNative(Tail(fields), m)
         IN  IF f.name \notin m.keys /\ ~f.hasDefault
             THEN [err |-> TRUE, bytes |-> << >>]
             ELSE IF rest.err THEN rest
             ELSE [err |-> FALSE,
                   bytes |-> EncValue(f.type,
                                      IF f.name \in m.keys THEN Get(m, f.name)
                                      ELSE f.default) \o rest.bytes]

\* goavro record decoder: reads the fields in schema order into a fresh map;
\* bytes left over are returned and not looked at by the caller.
RECURSIVE NativeFromBinary(_, _, _)
NativeFromBinary(fields, buf, m) ==
    IF fields = << >> THEN [err |-> FALSE, m |-> m, rest |-> buf]
    ELSE LET f == Head(fields)
             r == DecValue(f.type, buf)
         IN  IF r.err THEN [err |-> TRUE, m |-> EmptyMap, rest |-> << >>]
             ELSE NativeFromBinary(Tail(fields), r.rest, Put(m, f.name, r.val))

(***************************************************************************)
(* The schema texts of the codec tests, named by their record name, and    *)
(* the top-level namespace each declares.                                  *)
(***************************************************************************)
RecordSchemas ==
    {"userInfo", "userData", "userDataDefault", "User", "Parent",
     "userDataOptional", "authentication_event", "fake_data", "action"}

NamespaceOf(text) ==
    IF text \in {"userInfo", "userData", "userDataDefault", "User", "userDataOptional"}
    THEN "my.example"
    ELSE ""

(***************************************************************************)
(* Codec: the record mapper around the binary codec.                       *)
(***************************************************************************)
\* NewCodec: goavro rejects a text that is no schema; the namespace is the
\* top-level one of the text (none of the texts here declares one).
\* It starts with the default type name encoder.
NewCodec(schemaSpecification) ==
    IF schemaSpecification \in {SchemaV1, SchemaV2} \cup RecordSchemas
    THEN [err |-> FALSE,
          codec |-> [schema |-> schemaSpecification,
                     Namespace |-> NamespaceOf(schemaSpecification),
                     TypeNameEncoder |-> "DefaultTypeNameEncoder"]]
    ELSE [err |-> TRUE,
          codec |-> [schema |-> "", Namespace |-> "", TypeNameEncoder |-> ""]]

\* encodeUnionHook on the top-level value: a struct becomes the map of its
\* avro-tagged fields, a map is kept as it is.
encodeUnionHook(data) ==
    IF data.kind = "Person"
    THEN NativeMap({"name", "age"}, data.Name, data.Age, 0)
    ELSE data

\* Codec.Marshal -> Codec.marshal
CodecMarshal(codec, data) ==
    BinaryFromNative(SchemaFields(codec.schema), encodeUnionHook(data))

\* mapstructure's Decode of a native map into the destination: a map
\* destination receives every key of the source (keys it already holds and the
\* source lacks stay); a struct receives the keys its tags name and ignores
\* the others.
MapstructureDecode(m, output) ==
    IF output.kind = "Person"
    THEN Person(IF "name" \in m.keys THEN m.name ELSE output.Name,
                IF "age" \in m.keys THEN m.age ELSE output.Age)
    ELSE NativeMap(output.keys \cup m.keys,
                   IF "name" \in m.keys THEN m.name ELSE output.name,
                   IF "age" \in m.keys THEN m.age ELSE output.age,
                   IF "height" \in m.keys THEN m.height ELSE output.height)

\* Codec.Unmarshal -> Codec.unmarshal: a failed binary decode returns before
\* the destination is touched.
CodecUnmarshal(codec, avro, output) ==
    LET r == NativeFromBinary(SchemaFields(codec.schema), avro, EmptyMap) IN
    IF r.err THEN [err |-> TRUE, output |-> output]
    ELSE [err |-> FALSE, output |-> MapstructureDecode(r.m, output)]

(***************************************************************************)
(* Wire header: binary.Write / binary.Read with DefaultEndianness.         *)
(***************************************************************************)
\* SchemaID(schema.ID): the int -> int32 conversion.  Every id of the model
\* lies within the int32 range, where the conversion keeps the value.
SchemaIDOf(n) == n

BytesOf(u) == << u \div 16777216, (u \div 65536) % 256, (u \div 256) % 256, u % 256 >>

\* the four bytes least significant first (what binary.LittleEndian writes)
LittleEndianPutInt32(id) ==
    IF id >= 0 THEN << id % 256, (id \div 256) % 256, (id \div 65536) % 256, id \div 16777216 >>
    ELSE [i \in 1..4 |-> 255 - BytesOf(-id - 1)[5 - i]]

\* the four bytes of an int32, most significant first (two's complement)
BigEndianPutInt32(id) ==
    IF id >= 0 THEN BytesOf(id)
    ELSE [i \in 1..4 |-> 255 - BytesOf(-id - 1)[i]]

BigEndianInt32(b) ==
    IF b[1] < 128
    THEN b[1] * 16777216 + b[2] * 65536 + b[3] * 256 + b[4]
    ELSE -((255 - b[1]) * 16777216 + (255 - b[2]) * 65536
           + (255 - b[3]) * 256 + (255 - b[4])) - 1

\* binary.Write(&binBuffer, DefaultEndianness, header)
WriteHeader(id) == << MagicByte >> \o BigEndianPutInt32(id)

\* a header reader that accepts any first byte
ReadHeaderAnyMagic(from) ==
    IF Len(from) < 5 THEN [err |-> "binary.Read ID error", ID |-> 0, body |-> << >>]
    ELSE [err |-> "", ID |-> BigEndianInt32(SubSeq(from, 2, 5)),
          body |-> SubSeq(from, 6, Len(from))]

\* a header reader that leaves the id bytes in the body
ReadHeaderKeepID(from) ==
    IF Len(from) < 5 THEN [err |-> "binary.Read ID error", ID |-> 0, body |-> << >>]
    ELSE [err |-> IF from[1] # MagicByte THEN "magic byte" ELSE "",
          ID |-> BigEndianInt32(SubSeq(from, 2, 5)), body |-> Tail(from)]

\* The two binary.Read calls of Unmarshal and the magic byte test that
\* follows them.  A read that finds no byte at all ends with io.EOF, which
\* the code lets pass, leaving the zero value; a read that finds some bytes
\* but too few ends with io.ErrUnexpectedEOF, which is returned.
ReadHeader(from) ==
    LET magic == IF from = << >> THEN 0 ELSE from[1]
        afterMagic == IF from = << >> THEN << >> ELSE Tail(from)
    IN  IF afterMagic # << >> /\ Len(afterMagic) < 4
        THEN [err |-> "binary.Read ID error", ID |-> 0, body |-> << >>]
        ELSE LET id == IF afterMagic = << >> THEN 0
                       ELSE BigEndianInt32(SubSeq(afterMagic, 1, 4))
                 body == IF afterMagic = << >> THEN << >>
                         ELSE SubSeq(afterMagic, 5, Len(afterMagic))
             IN  IF magic # MagicByte
                 THEN [err |-> "magic byte", ID |-> id, body |-> body]
                 ELSE [err |-> "", ID |-> id, body |-> body]

(***************************************************************************)
(* The schema registry: the in-memory client (NewNOOPClient).  store maps  *)
(* a subject to the sequence of its schemas; a subject without schemas is  *)
(* an absent one.                                                          *)
(***************************************************************************)
Subjects == {"test", "other"}

ZeroSchema == [Schema |-> "", Subject |-> "", Version |-> 0, ID |-> 0]

RegisterNewSchemaFn(st, nid, subject, rawSchema) ==
    [store |-> [st EXCEPT ![subject] =
                    Append(@, [Schema |-> rawSchema, Subject |-> subject,
                               Version |-> Len(@), ID |-> nid])],
     newID |-> nid + 1,
     id |-> nid]

IsRegisteredFn(st, subject, schema) ==
    LET ss == st[subject]
        hits == {i \in 1..Len(ss) : ss[i].Schema = schema}
    IN  IF hits = {} THEN [found |-> FALSE, schema |-> ZeroSchema]
        ELSE [found |-> TRUE,
              schema |-> ss[CHOOSE i \in hits : \A j \in hits : i <= j]]

GetSchemaByIDFn(st, id) ==
    LET hits == {s \in UNION {{st[sub][i] : i \in 1..Len(st[sub])} : sub \in Subjects} :
                    s.ID = id}
    IN  IF hits = {} THEN [err |-> TRUE, schema |-> ""]
        ELSE [err |-> FALSE, schema |-> (CHOOSE s \in hits : TRUE).Schema]

(***************************************************************************)
(* CodecRegistry.  A cache is a record of its fields; codecByID is a       *)
(* function from the ids it holds to their codecs.  Every call to the      *)
(* registry goes over the transport, which may fail: net is the number of  *)
(* registry calls that still succeed.                                      *)
(***************************************************************************)
NoCodecs == << >>

\* the struct literal of newRegistry
NewCache(subject) ==
    [live |-> TRUE, subject |-> subject, codecByID |-> NoCodecs,
     SchemaID |-> 0, SchemaVersion |-> 0, TypeNameEncoder |-> ""]

NilCache ==
    [live |-> FALSE, subject |-> "", codecByID |-> NoCodecs,
     SchemaID |-> 0, SchemaVersion |-> 0, TypeNameEncoder |-> ""]

Result(e, st, nid, r, w) == [err |-> e, store |-> st, newID |-> nid, r |-> r, writes |-> w]

\* CodecRegistry.Register
Register(st, nid, r, rawSchema, net) ==
    IF net < 1 THEN Result("RegisterNewSchema error", st, nid, r, 0)
    ELSE LET reg == RegisterNewSchemaFn(st, nid, r.subject, rawSchema)
             isr == IsRegisteredFn(reg.store, r.subject, rawSchema)
             nc  == NewCodec(rawSchema)
             id  == SchemaIDOf(isr.schema.ID)
         IN  IF net < 2 THEN Result("IsRegistered error", reg.store, reg.newID, r, 1)
             ELSE IF ~isr.found THEN Result("can't register schema", reg.store, reg.newID, r, 1)
             ELSE IF nc.err THEN Result("NewCodec error", reg.store, reg.newID, r, 1)
             ELSE Result("", reg.store, reg.newID,
                         [r EXCEPT !.codecByID =
                                       (id :> IF r.TypeNameEncoder # ""
                                              THEN [nc.codec EXCEPT !.TypeNameEncoder =
                                                                        r.TypeNameEncoder]
                                              ELSE nc.codec) @@ @,
                                   !.SchemaID = id,
                                   !.SchemaVersion = isr.schema.Version],
                         1)

\* a setter that stores the encoder in the cache only
SetTypeNameEncoderFieldOnly(r, typeNameEncoder) ==
    [r EXCEPT !.TypeNameEncoder = typeNameEncoder]

\* CodecRegistry.SetTypeNameEncoder; "" is the nil encoder
SetTypeNameEncoder(r, typeNameEncoder) ==
    [r EXCEPT !.TypeNameEncoder = typeNameEncoder,
              !.codecByID = [id \in DOMAIN @ |->
                                [@[id] EXCEPT !.TypeNameEncoder = typeNameEncoder]]]

\* CodecRegistry.init; notRegistered is what the callback does when the
\* schema is not registered: "fail" (NewCodecRegistry) or "register"
\* (initAndRegister).
init(st, nid, r, rawSchema, notRegistered, net) ==
    IF rawSchema = EmptySchema
    THEN Result("", st, nid,
                [r EXCEPT !.SchemaID = UnknownID, !.SchemaVersion = UnknownVersion], 0)
    ELSE IF net < 1 THEN Result("Registry.IsRegistered error", st, nid, r, 0)
    ELSE LET isr == IsRegisteredFn(st, r.subject, rawSchema)
             nc  == NewCodec(rawSchema)
             id  == SchemaIDOf(isr.schema.ID)
         IN  IF ~isr.found
             THEN IF notRegistered = "register"
                  THEN Register(st, nid, r, rawSchema, net - 1)
                  ELSE Result("the given schema is not registered", st, nid, r, 0)
             ELSE IF nc.err
             THEN Result("NewCodec error", st, nid, [r EXCEPT !.SchemaID = id], 0)
             ELSE Result("", st, nid,
                         [r EXCEPT !.codecByID = (id :> nc.codec) @@ @,
                                   !.SchemaID = id,
                                   !.SchemaVersion = isr.schema.Version],
                         0)

\* an init that registers without asking the registry first
initRegisterAlways(st, nid, r, rawSchema, net) ==
    IF rawSchema = EmptySchema THEN init(st, nid, r, rawSchema, "register", net)
    ELSE Register(st, nid, r, rawSchema, net)

\* CodecRegistry.initAndRegister
initAndRegister(st, nid, r, rawSchema, net) ==
    init(st, nid, r, rawSchema, "register", net)

\* newRegistry with the init function of NewCodecRegistryAndRegister
\* ("register") or of NewCodecRegistry ("fail"): no cache is returned when
\* the URL does not parse or the init function fails.
newRegistry(st, nid, urlOK, subject, schema, notRegistered, net) ==
    IF ~urlOK THEN Result("url.Parse error", st, nid, NilCache, 0)
    ELSE LET res == IF notRegistered = "register"
                    THEN initAndRegister(st, nid, NewCache(subject), schema, net)
                    ELSE init(st, nid, NewCache(subject), schema, "fail", net)
         IN  IF res.err # "" THEN [res EXCEPT !.r = NilCache] ELSE res

\* a Marshal without the UnknownID test
MarshalUnchecked(r, data) ==
    IF r.SchemaID \notin DOMAIN r.codecByID
    THEN [err |-> "panic: nil codec", bytes |-> << >>]
    ELSE LET body == CodecMarshal(r.codecByID[r.SchemaID], data) IN
         IF body.err THEN [err |-> "codec.Marshal error", bytes |-> << >>]
         ELSE [err |-> "", bytes |-> WriteHeader(r.SchemaID) \o body.bytes]

\* CodecRegistry.Marshal.  A current id without a codec in the map makes the
\* call dereference a nil *Codec.
Marshal(r, data) ==
    IF r.SchemaID = UnknownID THEN [err |-> "ErrNoEncodeSchema", bytes |-> << >>]
    ELSE IF r.SchemaID \notin DOMAIN r.codecByID
    THEN [err |-> "panic: nil codec", bytes |-> << >>]
    ELSE LET body == CodecMarshal(r.codecByID[r.SchemaID], data) IN
         IF body.err THEN [err |-> "codec.Marshal error", bytes |-> << >>]
         ELSE [err |-> "", bytes |-> WriteHeader(r.SchemaID) \o body.bytes]

\* a lookup that builds the codec on a miss and does not keep it
getCodecByIDNoInsert(st, r, ID, net) ==
    IF ID \in DOMAIN r.codecByID
    THEN [err |-> "", codec |-> r.codecByID[ID], r |-> r, steps |-> << "hit" >>]
    ELSE IF net < 1 \/ GetSchemaByIDFn(st, ID).err
    THEN [err |-> "schema not found", codec |-> NewCodec(EmptySchema).codec, r |-> r,
          steps |-> << "GetSchemaByID" >>]
    ELSE LET nc == NewCodec(GetSchemaByIDFn(st, ID).schema) IN
         [err |-> IF nc.err THEN "NewCodec error" ELSE "", codec |-> nc.codec, r |-> r,
          steps |-> << "GetSchemaByID", "NewCodec" >>]

\* a lookup that answers with the codec of the current id
getCurrentCodec(st, r, ID, net) ==
    IF r.SchemaID \in DOMAIN r.codecByID
    THEN [err |-> "", codec |-> r.codecByID[r.SchemaID], r |-> r, steps |-> << "hit" >>]
    ELSE [err |-> "schema not found", codec |-> NewCodec(EmptySchema).codec, r |-> r,
          steps |-> << "GetSchemaByID" >>]

\* a lookup that keeps, on a miss, a codec of the first Person schema
\* whatever text the registry answered
getCodecByIDKeepsFirst(st, r, ID, net) ==
    IF ID \in DOMAIN r.codecByID
    THEN [err |-> "", codec |-> r.codecByID[ID], r |-> r, steps |-> << "hit" >>]
    ELSE IF net < 1 \/ GetSchemaByIDFn(st, ID).err
    THEN [err |-> "schema not found", codec |-> NewCodec(EmptySchema).codec, r |-> r,
          steps |-> << "GetSchemaByID" >>]
    ELSE LET nc == NewCodec(GetSchemaByIDFn(st, ID).schema) IN
         IF nc.err
         THEN [err |-> "NewCodec error", codec |-> nc.codec, r |-> r,
               steps |-> << "GetSchemaByID", "NewCodec" >>]
         ELSE [err |-> "", codec |-> nc.codec,
               r |-> [r EXCEPT !.codecByID = (ID :> NewCodec(SchemaV1).codec) @@ @],
               steps |-> << "GetSchemaByID", "NewCodec" >>]

\* a lookup that makes the id it resolves the current one
getCodecByIDMakesCurrent(st, r, ID, net) ==
    IF ID \in DOMAIN r.codecByID
    THEN [err |-> "", codec |-> r.codecByID[ID], r |-> r, steps |-> << "hit" >>]
    ELSE IF net < 1 \/ GetSchemaByIDFn(st, ID).err
    THEN [err |-> "schema not found", codec |-> NewCodec(EmptySchema).codec, r |-> r,
          steps |-> << "GetSchemaByID" >>]
    ELSE LET nc == NewCodec(GetSchemaByIDFn(st, ID).schema) IN
         IF nc.err
         THEN [err |-> "NewCodec error", codec |-> nc.codec, r |-> r,
               steps |-> << "GetSchemaByID", "NewCodec" >>]
         ELSE [err |-> "", codec |-> nc.codec,
               r |-> [r EXCEPT !.codecByID = (ID :> nc.codec) @@ @, !.SchemaID = ID],
               steps |-> << "GetSchemaByID", "NewCodec" >>]

\* CodecRegistry.getCodecByID
getCodecByID(st, r, ID, net) ==
    IF ID \in DOMAIN r.codecByID
    THEN [err |-> "", codec |-> r.codecByID[ID], r |-> r, steps |-> << "hit" >>]
    ELSE IF net < 1
    THEN [err |-> "GetSchemaByID error", codec |-> NewCodec(EmptySchema).codec, r |-> r,
          steps |-> << "GetSchemaByID" >>]
    ELSE LET got == GetSchemaByIDFn(st, ID)
             nc  == NewCodec(got.schema)
         IN  IF got.err
             THEN [err |-> "schema not found", codec |-> nc.codec, r |-> r,
                   steps |-> << "GetSchemaByID" >>]
             ELSE IF nc.err
             THEN [err |-> "NewCodec error", codec |-> nc.codec, r |-> r,
                   steps |-> << "GetSchemaByID", "NewCodec" >>]
             ELSE [err |-> "", codec |-> nc.codec,
                   r |-> [r EXCEPT !.codecByID = (ID :> nc.codec) @@ @],
                   steps |-> << "GetSchemaByID", "NewCodec" >>]

\* variants of the test below: never, and without the UnknownID exemption
NeverReconcile(r, ID) == FALSE

ReconcileOnAnyMismatch(r, ID) == ID # r.SchemaID

\* the test of Unmarshal that sends a payload through the current schema
Reconcile(r, ID) == r.SchemaID # UnknownID /\ ID # r.SchemaID

\* an Unmarshal whose last decode uses the header id's codec again
UnmarshalHeaderCodec(st, r, from, to, net) ==
    LET header == ReadHeader(from)
        got == getCodecByID(st, r, header.ID, net)
        tmp == CodecUnmarshal(got.codec, header.body, EmptyMap)
        enc == Marshal(got.r, tmp.output)
        dec == CodecUnmarshal(got.codec,
                              IF Reconcile(got.r, header.ID)
                              THEN ReadHeader(enc.bytes).body ELSE header.body, to)
    IN  IF header.err # "" THEN [err |-> header.err, to |-> to, r |-> r, steps |-> << >>]
        ELSE IF got.err # "" THEN [err |-> got.err, to |-> to, r |-> got.r, steps |-> got.steps]
        ELSE IF Reconcile(got.r, header.ID) /\ (tmp.err \/ enc.err # "")
        THEN [err |-> "codec.Unmarshal error", to |-> to, r |-> got.r,
              steps |-> got.steps \o << "decode" >>]
        ELSE [err |-> IF dec.err THEN "codec.Unmarshal error" ELSE "",
              to |-> dec.output, r |-> got.r,
              steps |-> got.steps \o (IF Reconcile(got.r, header.ID)
                                      THEN << "decode", "Marshal", "Unmarshal", "hit", "decode" >>
                                      ELSE << "decode" >>)]

\* CodecRegistry.Unmarshal.  steps lists, in order, what the call did.
RECURSIVE Unmarshal(_, _, _, _, _)
Unmarshal(st, r, from, to, net) ==
    LET header == ReadHeader(from) IN
    IF header.err # ""
    THEN [err |-> header.err, to |-> to, r |-> r, steps |-> << >>]
    ELSE
    LET got == getCodecByID(st, r, header.ID, net) IN
    IF got.err # ""
    THEN [err |-> got.err, to |-> to, r |-> got.r, steps |-> got.steps]
    ELSE
    IF Reconcile(got.r, header.ID)
    THEN LET tmp == CodecUnmarshal(got.codec, header.body, EmptyMap)
             enc == Marshal(got.r, tmp.output)
         IN  IF tmp.err
             THEN [err |-> "codec.Unmarshal error", to |-> to, r |-> got.r,
                   steps |-> got.steps \o << "decode" >>]
             ELSE IF enc.err # ""
             THEN [err |-> enc.err, to |-> to, r |-> got.r,
                   steps |-> got.steps \o << "decode", "Marshal" >>]
             ELSE LET rec == Unmarshal(st, got.r, enc.bytes, to,
                                       IF got.steps = << "hit" >> THEN net ELSE net - 1)
                  IN  [rec EXCEPT !.steps =
                           got.steps \o << "decode", "Marshal", "Unmarshal" >> \o @]
    ELSE LET dec == CodecUnmarshal(got.codec, header.body, to) IN
         [err |-> IF dec.err THEN "codec.Unmarshal error" ELSE "",
          to |-> dec.output, r |-> got.r,
          steps |-> got.steps \o << "decode" >>]

(***************************************************************************)
(* The system: the registry, one CodecRegistry r (cache) using it, and the *)
(* last call made.  Other CodecRegistry values attached to the same        *)
(* registry only write payloads; each is the result of NewCodecRegistry    *)
(* for a schema the registry holds.                                        *)
(***************************************************************************)
\* the first id the registry hands out (NewNOOPClient starts at 0)
FirstIDs == {0}

Datas ==
    { Person(<< >>, -1), Person(<< 78, 105 >>, 36),
      NativeMap({"name", "age", "height"}, << 78, 105 >>, 36, 180),
      NativeMap({"name"}, << 78 >>, 0, 0) }

\* fresh destinations: an empty map and a zero struct
Destinations == {EmptyMap, ZeroPerson}

\* the subject r is created for, and what others register directly: under
\* r's subject the second Person schema and a text that is no schema, and
\* the first Person schema under another subject
CacheSubjects == {"test"}

ThirdParty == {<< "test", SchemaV2 >>, << "test", SchemaBad >>, << "other", SchemaV1 >>}

Regs == Len(store["test"]) + Len(store["other"])

RegisteredIDs ==
    UNION {{store[sub][i].ID : i \in 1..Len(store[sub])} : sub \in Subjects}

\* who marshalled a payload: r itself, or another CodecRegistry attached to
\* the schema text under the subject
Writers ==
    { << "self", "", "" >>, << "peer", "test", SchemaV1 >>,
      << "peer", "test", SchemaV2 >>, << "peer", "other", SchemaV1 >> }

WriterCache(w) ==
    IF w[1] = "self" THEN cache
    ELSE newRegistry(store, newID, TRUE, w[2], w[3], "fail", MaxNet).r

\* payloads that no Marshal call produced
Crafted ==
    { << >>, << 0 >>, << 1 >>, << 0, 0, 0 >>, << 9, 0, 0, 0, 0 >>,
      << 1, 0, 0, 0, 0, 2, 78, 72 >> }
    \cup { WriteHeader(i) \o << 2, 78 >> : i \in RegisteredIDs \cup {newID} }

\* last: the call made last and what it returned.  id is the cache's current
\* id when the call started (for a constructor, of the cache it returned);
\* hid is the schema id in the header of the bytes given to Unmarshal; to is
\* the destination after Unmarshal (it was fresh before); short tells that
\* the bytes were fewer than the five of a header.
NoLast ==
    [op |-> "", err |-> "", schema |-> "", writes |-> 0, registered |-> FALSE,
     id |-> 0, hid |-> 0, short |-> FALSE, to |-> EmptyMap, steps |-> << >>,
     encoder |-> ""]

Init ==
    /\ store = [sub \in Subjects |-> << >>]
    /\ newID \in FirstIDs
    /\ cache = NilCache
    /\ last = NoLast

\* somebody else registers, once, a schema directly with the registry
RegistryRegisterNewSchema(subject, text) ==
    /\ Regs < MaxRegs
    /\ ~IsRegisteredFn(store, subject, text).found
    /\ LET reg == RegisterNewSchemaFn(store, newID, subject, text) IN
       /\ store' = reg.store
       /\ newID' = reg.newID
       /\ last' = [NoLast EXCEPT !.op = "RegisterNewSchema",
                                 !.schema = text, !.writes = 1, !.id = reg.id]
    /\ UNCHANGED cache

Construct(name, urlOK, subject, schema, notRegistered, net) ==
    /\ ~cache.live
    /\ LET res == newRegistry(store, newID, urlOK, subject, schema, notRegistered, net) IN
       /\ res.writes = 0 \/ Regs < MaxRegs
       /\ store' = res.store
       /\ newID' = res.newID
       /\ cache' = res.r
       /\ last' = [NoLast EXCEPT !.op = name, !.err = res.err, !.schema = schema,
                                 !.writes = res.writes,
                                 !.registered = IsRegisteredFn(store, subject, schema).found,
                                 !.id = res.r.SchemaID]

\* a NewCodecRegistry that registers what it does not find
CallNewCodecRegistryRegistering(urlOK, subject, schema, net) ==
    Construct("NewCodecRegistry", urlOK, subject, schema, "register", net)

\* NewCodecRegistry(registryURL, subject, schema)
CallNewCodecRegistry(urlOK, subject, schema, net) ==
    Construct("NewCodecRegistry", urlOK, subject, schema, "fail", net)

\* NewCodecRegistryAndRegister(registryURL, subject, schema)
CallNewCodecRegistryAndRegister(urlOK, subject, schema, net) ==
    Construct("NewCodecRegistryAndRegister", urlOK, subject, schema, "register", net)

\* NewNOOPCodecRegistry(subject): the struct literal with a registry of its
\* own, made by NewNOOPClient and so empty; init is not called.
CallNewNOOPCodecRegistry(subject) ==
    /\ ~cache.live
    /\ store = [sub \in Subjects |-> << >>]
    /\ newID = 0
    /\ cache' = NewCache(subject)
    /\ last' = [NoLast EXCEPT !.op = "NewNOOPCodecRegistry", !.id = NewCache(subject).SchemaID]
    /\ UNCHANGED <<store, newID>>

\* what a Register call that ended with err did, in order
RegisterSteps(err) ==
    CASE err = "RegisterNewSchema error" -> << "RegisterNewSchema" >>
      [] err \in {"IsRegistered error", "can't register schema"} ->
            << "RegisterNewSchema", "IsRegistered" >>
      [] OTHER -> << "RegisterNewSchema", "IsRegistered", "NewCodec" >>

\* r.Register(rawSchema)
CallRegister(rawSchema, net) ==
    /\ cache.live
    /\ LET res == Register(store, newID, cache, rawSchema, net) IN
       /\ res.writes = 0 \/ Regs < MaxRegs
       /\ store' = res.store
       /\ newID' = res.newID
       /\ cache' = res.r
       /\ last' = [NoLast EXCEPT !.op = "Register", !.err = res.err,
                                 !.schema = rawSchema,
                                 !.steps = RegisterSteps(res.err),
                                 !.writes = res.writes,
                                 !.registered =
                                     IsRegisteredFn(store, cache.subject, rawSchema).found,
                                 !.id = res.r.SchemaID]

\* r.Marshal(data)
CallMarshal(data) ==
    /\ cache.live
    /\ LET res == Marshal(cache, data) IN
       last' = [NoLast EXCEPT !.op = "Marshal", !.err = res.err,
                              !.id = cache.SchemaID]
    /\ UNCHANGED <<store, newID, cache>>

Deliver(from, to, net) ==
    /\ cache.live
    /\ LET res == Unmarshal(store, cache, from, to, net) IN
       /\ cache' = res.r
       /\ last' = [NoLast EXCEPT !.op = "Unmarshal", !.err = res.err,
                                 !.id = cache.SchemaID, !.hid = ReadHeader(from).ID,
                                 !.short = Len(from) < 5,
                                 !.to = res.to, !.steps = res.steps]
    /\ UNCHANGED <<store, newID>>

\* r.Unmarshal(from, to) on the payload that writer w's Marshal(data) returns
CallUnmarshal(w, data, to, net) ==
    /\ WriterCache(w).live
    /\ LET m == Marshal(WriterCache(w), data) IN
       /\ m.err = ""
       /\ Deliver(m.bytes, to, net)

\* r.Unmarshal(from, to) on bytes from elsewhere
CallUnmarshalCrafted(from, to, net) ==
    Deliver(from, to, net)

\* r.SetTypeNameEncoder(typeNameEncoder)
CallSetTypeNameEncoder(typeNameEncoder) ==
    /\ cache.live
    /\ cache' = SetTypeNameEncoder(cache, typeNameEncoder)
    /\ last' = [NoLast EXCEPT !.op = "SetTypeNameEncoder", !.encoder = typeNameEncoder,
                              !.id = cache.SchemaID]
    /\ UNCHANGED <<store, newID>>

\* r.TypeNameEncoder = typeNameEncoder
AssignTypeNameEncoder(typeNameEncoder) ==
    /\ cache.live
    /\ cache' = [cache EXCEPT !.TypeNameEncoder = typeNameEncoder]
    /\ last' = [NoLast EXCEPT !.op = "TypeNameEncoder =", !.encoder = typeNameEncoder,
                              !.id = cache.SchemaID]
    /\ UNCHANGED <<store, newID>>

Next ==
    \/ \E sr \in ThirdParty : RegistryRegisterNewSchema(sr[1], sr[2])
    \/ \E urlOK \in BOOLEAN, subject \in CacheSubjects,
          schema \in Texts \cup {EmptySchema}, net \in 0..MaxNet :
          CallNewCodecRegistry(urlOK, subject, schema, net)
    \/ \E urlOK \in BOOLEAN, subject \in CacheSubjects,
          schema \in Texts \cup {EmptySchema}, net \in 0..MaxNet :
          CallNewCodecRegistryAndRegister(urlOK, subject, schema, net)
    \/ \E rawSchema \in Texts, net \in 0..MaxNet : CallRegister(rawSchema, net)
    \/ \E data \in Datas : CallMarshal(data)
    \/ \E w \in Writers, data \in Datas, to \in Destinations :
          CallUnmarshal(w, data, to, MaxNet)
    \/ \E from \in Crafted, net \in {0, MaxNet} :
          CallUnmarshalCrafted(from, EmptyMap, net)

Spec == Init /\ [][Next]_vars

(***************************************************************************)
(* A registry whose id counter stands anywhere in the int32 range, with    *)
(* the calls that lead to Marshal: the wire header for ids of one to four  *)
(* significant bytes.                                                      *)
(***************************************************************************)
WideFirstIDs == {0, 255, 65535, 16777215, 2147483000}

InitHeader ==
    /\ store = [sub \in Subjects |-> << >>]
    /\ newID \in WideFirstIDs
    /\ cache = NilCache
    /\ last = NoLast

NextHeader ==
    \/ \E sr \in ThirdParty : RegistryRegisterNewSchema(sr[1], sr[2])
    \/ \E subject \in CacheSubjects, schema \in Texts \cup {EmptySchema} :
          CallNewCodecRegistryAndRegister(TRUE, subject, schema, MaxNet)
    \/ \E rawSchema \in Texts : CallRegister(rawSchema, MaxNet)
    \/ \E data \in Datas : CallMarshal(data)

SpecHeader == InitHeader /\ [][NextHeader]_vars

(***************************************************************************)
(* The package with its third constructor, NewNOOPCodecRegistry.           *)
(***************************************************************************)
NextNOOP ==
    \/ \E sr \in ThirdParty : RegistryRegisterNewSchema(sr[1], sr[2])
    \/ \E subject \in CacheSubjects : CallNewNOOPCodecRegistry(subject)
    \/ \E subject \in CacheSubjects, schema \in Texts \cup {EmptySchema} :
          CallNewCodecRegistry(TRUE, subject, schema, MaxNet)
    \/ \E subject \in CacheSubjects, schema \in Texts \cup {EmptySchema} :
          CallNewCodecRegistryAndRegister(TRUE, subject, schema, MaxNet)
    \/ \E rawSchema \in Texts, net \in {1, MaxNet} : CallRegister(rawSchema, net)
    \/ \E data \in Datas : CallMarshal(data)
    \/ \E w \in Writers, data \in Datas, to \in Destinations :
          CallUnmarshal(w, data, to, MaxNet)
    \/ \E from \in Crafted : CallUnmarshalCrafted(from, EmptyMap, MaxNet)

SpecNOOP == Init /\ [][NextNOOP]_vars

(***************************************************************************)
(* A cache whose type name encoder is set, through SetTypeNameEncoder or   *)
(* by assigning the field, between the calls that put codecs in its map.   *)
(***************************************************************************)
\* the encoders given: the one of the tests, the default one, and nil
Encoders == {"CamelCaseToSnakeCase", "DefaultTypeNameEncoder", ""}

NextEncoder ==
    \/ \E sr \in ThirdParty : RegistryRegisterNewSchema(sr[1], sr[2])
    \/ \E subject \in CacheSubjects, schema \in {SchemaV1, EmptySchema} :
          CallNewCodecRegistryAndRegister(TRUE, subject, schema, MaxNet)
    \/ \E rawSchema \in {SchemaV1, SchemaV2} : CallRegister(rawSchema, MaxNet)
    \/ \E w \in Writers \ {<< "self", "", "" >>} :
          CallUnmarshal(w, Person(<< 78, 105 >>, 36), ZeroPerson, MaxNet)
    \/ \E typeNameEncoder \in Encoders : CallSetTypeNameEncoder(typeNameEncoder)
    \/ \E typeNameEncoder \in Encoders : AssignTypeNameEncoder(typeNameEncoder)

SpecEncoder == Init /\ [][NextEncoder]_vars

(***************************************************************************)
(* Properties                                                              *)
(***************************************************************************)
\* the schema the cache encodes with, "" when it has none
CurrentSchema(r) ==
    IF r.live /\ r.SchemaID # UnknownID /\ r.SchemaID \in DOMAIN r.codecByID
    THEN r.codecByID[r.SchemaID].schema
    ELSE ""

NameOf(v) == IF v.kind = "Person" THEN v.Name ELSE v.name
AgeOf(v) == IF v.kind = "Person" THEN v.Age ELSE v.age

\* writers whose cache exists in the current registry
LiveWriters == {w \in Writers : WriterCache(w).live}

\* destinations that already hold something
UsedDestinations == {Person(<< 88 >>, 7), NativeMap({"height"}, << >>, 0, 99)}

\* C1: header invariant.  Whenever r has a current id and Marshal succeeds,
\* the output is byte 0, then the current id as a big-endian signed 32-bit
\* integer, then exactly the body the codec bound to that id produces.
HeaderInvariant ==
    cache.live /\ cache.SchemaID # UnknownID =>
        \A data \in Datas :
            LET m == Marshal(cache, data)
                b == m.bytes
                id == cache.SchemaID
            IN  m.err = "" =>
                /\ Len(b) >= 5
                /\ b[1] = 0
                /\ \A i \in 2..5 : b[i] \in 0..255
                /\ IF id >= 0
                   THEN b[2] < 128
                        /\ b[2] * 16777216 + b[3] * 65536 + b[4] * 256 + b[5] = id
                   ELSE b[2] >= 128
                        /\ (b[2] - 256) * 16777216 + b[3] * 65536 + b[4] * 256 + b[5] = id
                /\ cache.SchemaID \in DOMAIN cache.codecByID
                /\ SubSeq(b, 6, Len(b)) = CodecMarshal(cache.codecByID[id], data).bytes
                /\ ~CodecMarshal(cache.codecByID[id], data).err

HeaderWitness ==
    /\ last.op = "Marshal"
    /\ last.err = ""
    /\ cache.SchemaID = 65536
    /\ Marshal(cache, Person(<< 78, 105 >>, 36)).bytes
           = << 0, 0, 1, 0, 0, 4, 78, 105, 72 >>

PayloadsUnder(text) ==
    { << data, Marshal(WriterCache(w), data).bytes >> :
        w \in {x \in LiveWriters : CurrentSchema(WriterCache(x)) = text},
        data \in {d \in Datas : \A x \in LiveWriters :
                     CurrentSchema(WriterCache(x)) = text
                        => Marshal(WriterCache(x), d).err = ""} }

HeaderSchema == GetSchemaByIDFn(store, last.hid).schema

\* C3: forward evolution.  A payload encoded under v1, decoded by a reader
\* whose current schema is v2 on the same registry, gives a generic map with
\* height = 150, the default of v2, whatever height the encoded map held.
ForwardEvolution ==
    CurrentSchema(cache) = SchemaV2 =>
        \A p \in PayloadsUnder(SchemaV1) :
            LET u == Unmarshal(store, cache, p[2], EmptyMap, MaxNet) IN
            /\ u.err = ""
            /\ u.to.keys = {"name", "age", "height"}
            /\ u.to.height = 150
            /\ u.to.name = NameOf(p[1])
            /\ u.to.age = AgeOf(p[1])

ForwardEvolutionWitness ==
    /\ last.op = "Unmarshal"
    /\ last.err = ""
    /\ CurrentSchema(cache) = SchemaV2
    /\ HeaderSchema = SchemaV1
    /\ last.to.kind = "map"
    /\ last.to.height = 150
    /\ last.to.name = << 78, 105 >>
    /\ \E i \in 1..Len(last.steps) : last.steps[i] = "Marshal"

\* the maps of Datas that hold height = 180
Tall(p) == p[1].kind = "map" /\ "height" \in p[1].keys /\ p[1].height = 180

\* C4 as stated: a payload encoded under v2 with height = 180, decoded by a
\* reader whose current schema is v1, still reports height in a generic
\* destination, and a typed v1 destination omits it.
BackwardEvolutionStated ==
    CurrentSchema(cache) = SchemaV1 =>
        \A p \in {q \in PayloadsUnder(SchemaV2) : Tall(q)} :
            LET g == Unmarshal(store, cache, p[2], EmptyMap, MaxNet)
                t == Unmarshal(store, cache, p[2], ZeroPerson, MaxNet)
            IN  /\ g.err = "" /\ "height" \in g.to.keys
                /\ t.err = "" /\ t.to = Person(NameOf(p[1]), AgeOf(p[1]))

\* C4: backward evolution.  A payload encoded under v2 with height = 180,
\* decoded by a reader whose current schema is v1, gives a generic map with
\* name and age only (height is dropped by the re-encoding under v1) and a
\* typed v1 destination with name and age.
BackwardEvolution ==
    CurrentSchema(cache) = SchemaV1 =>
        \A p \in {q \in PayloadsUnder(SchemaV2) : Tall(q)} :
            LET g == Unmarshal(store, cache, p[2], EmptyMap, MaxNet)
                t == Unmarshal(store, cache, p[2], ZeroPerson, MaxNet)
            IN  /\ g.err = ""
                /\ g.to.keys = {"name", "age"}
                /\ g.to.name = NameOf(p[1]) /\ g.to.age = AgeOf(p[1])
                /\ t.err = "" /\ t.to = Person(NameOf(p[1]), AgeOf(p[1]))

BackwardEvolutionWitness ==
    /\ last.op = "Unmarshal"
    /\ last.err = ""
    /\ CurrentSchema(cache) = SchemaV1
    /\ HeaderSchema = SchemaV2
    /\ last.to.kind = "map"
    /\ last.to.keys = {"name", "age"}
    /\ last.to.name = << 78, 105 >>
    /\ \E i \in 1..Len(last.steps) : last.steps[i] = "Marshal"

FieldNames(text) == {SchemaFields(text)[i].name : i \in 1..Len(SchemaFields(text))}

Did(steps, what) == \E i \in 1..Len(steps) : steps[i] = what

Constructors == {"NewCodecRegistry", "NewCodecRegistryAndRegister"}

\* C5: empty mode.  A cache made with the empty schema text has current id
\* -1.  While it has, Unmarshal of a marshalled payload whose header id the
\* registry resolves succeeds by decoding directly with the codec of the
\* header id, never going through Marshal (so never ErrNoEncodeSchema), and
\* a generic map holds exactly the fields of the writer's schema.
EmptyMode ==
    /\ last.op \in Constructors /\ last.schema = EmptySchema /\ last.err = ""
          => cache.live /\ cache.SchemaID = UnknownID /\ DOMAIN cache.codecByID = {}
    /\ cache.live /\ cache.SchemaID = UnknownID =>
        /\ \A text \in {SchemaV1, SchemaV2} :
             \A p \in PayloadsUnder(text), to \in Destinations :
               LET u == Unmarshal(store, cache, p[2], to, MaxNet) IN
               /\ u.err = ""
               /\ ~Did(u.steps, "Marshal")
               /\ u.steps[Len(u.steps)] = "decode"
               /\ u.r.SchemaID = UnknownID
               /\ IF to.kind = "Person"
                  THEN u.to = Person(NameOf(p[1]), AgeOf(p[1]))
                  ELSE /\ u.to.keys = FieldNames(text)
                       /\ u.to.name = NameOf(p[1])
                       /\ u.to.age = AgeOf(p[1])
                       /\ text = SchemaV2 =>
                             u.to.height = IF Tall(p) THEN 180 ELSE 150
        /\ \A from \in Crafted, net \in {0, MaxNet} :
               LET u == Unmarshal(store, cache, from, EmptyMap, net) IN
               u.err # "ErrNoEncodeSchema" /\ ~Did(u.steps, "Marshal")

EmptyModeWitness ==
    /\ last.op = "Unmarshal"
    /\ last.err = ""
    /\ last.id = UnknownID
    /\ cache.SchemaID = UnknownID
    /\ HeaderSchema = SchemaV2
    /\ last.steps = << "GetSchemaByID", "NewCodec", "decode" >>
    /\ last.to.kind = "map"
    /\ last.to.keys = {"name", "age", "height"}
    /\ last.to.height = 180

\* C6: encode without a schema.  On a cache whose current id is -1, Marshal
\* returns ErrNoEncodeSchema and no bytes for every input, and the call
\* leaves the cache (and the registry) as they were.
EncodeWithoutSchema ==
    [][ /\ cache'.live /\ cache'.SchemaID = UnknownID =>
              \A data \in Datas \cup Destinations :
                  Marshal(cache', data) = [err |-> "ErrNoEncodeSchema", bytes |-> << >>]
        /\ last'.op = "Marshal" /\ last'.id = UnknownID =>
              /\ last'.err = "ErrNoEncodeSchema"
              /\ cache' = cache /\ store' = store /\ newID' = newID ]_vars

EncodeWithoutSchemaWitness ==
    /\ last.op = "Marshal"
    /\ last.id = UnknownID
    /\ last.err = "ErrNoEncodeSchema"
    /\ cache.live /\ cache.SchemaID = UnknownID
    /\ RegisteredIDs # {}

\* inputs whose first byte is not the magic byte
BadMagic ==
    { << 1 >>, << 255 >>, << 1, 0, 0 >>, << 9, 0, 0, 0, 0 >> }
    \cup { << b >> \o Tail(c) : b \in {1, 255}, c \in Crafted \ {<< >>} }
    \cup { << b >> \o Tail(p[2]) :
             b \in {1, 255}, p \in PayloadsUnder(SchemaV1) \cup PayloadsUnder(SchemaV2) }

\* C7: bad magic byte.  Unmarshal of an input whose first byte is not 0
\* returns an error whatever the other bytes are, resolves no codec, and
\* leaves the destination and the cache as they were.
BadMagicRejected ==
    cache.live =>
        \A from \in BadMagic, to \in Destinations \cup UsedDestinations,
           net \in {0, MaxNet} :
            LET u == Unmarshal(store, cache, from, to, net) IN
            /\ u.err # ""
            /\ u.steps = << >>
            /\ u.to = to
            /\ u.r = cache

BadMagicWitness ==
    /\ last.op = "Unmarshal"
    /\ last.err = "magic byte"
    /\ ~last.short
    /\ last.steps = << >>
    /\ last.to = EmptyMap
    /\ last.hid \in RegisteredIDs

\* C8 as stated: Unmarshal of fewer than five bytes, the empty input and the
\* single byte 0 included, returns a protocol error and never goes on to
\* resolve a codec.
TruncatedHeaderRejected ==
    last.op = "Unmarshal" /\ last.short =>
        /\ last.err \in {"binary.Read ID error", "magic byte"}
        /\ last.steps = << >>

AttachOrRegister ==
    [][ \A subject \in CacheSubjects :
          last'.op = "NewCodecRegistryAndRegister" /\ last'.schema # EmptySchema =>
          LET isr == IsRegisteredFn(store, subject, last'.schema) IN
          /\ isr.found =>
                /\ store' = store /\ newID' = newID
                /\ last'.err = "" => cache'.SchemaID = isr.schema.ID
          /\ ~isr.found =>
                /\ Len(store'[subject]) <= Len(store[subject]) + 1
                /\ \A sub \in Subjects \ {subject} : store'[sub] = store[sub]
                /\ last'.err = "" =>
                      /\ store' = [store EXCEPT ![subject] =
                                      Append(@, [Schema |-> last'.schema,
                                                 Subject |-> subject,
                                                 Version |-> Len(@), ID |-> newID])]
                      /\ newID' = newID + 1
                      /\ cache'.SchemaID = newID
          /\ last'.err = "" =>
                /\ cache'.live
                /\ DOMAIN cache'.codecByID = {cache'.SchemaID}
                /\ cache'.codecByID[cache'.SchemaID].schema = last'.schema
          /\ last'.err # "" => cache' = NilCache ]_vars

AttachOrRegisterWitness ==
    /\ last.op = "NewCodecRegistryAndRegister"
    /\ last.err = ""
    /\ last.schema = SchemaV2
    /\ last.registered
    /\ last.writes = 0
    /\ cache.SchemaID = 1
    /\ DOMAIN cache.codecByID = {1}
    /\ Regs = 2

\* C11 as stated: after a successful Register(text) the codec map holds a
\* codec built from text under the id the registry assigned to this
\* registration and that id is the current id; after a failed one the
\* cache is as it was.
RegisterStated ==
    [][ last'.op = "Register" =>
          IF last'.err = ""
          THEN /\ cache'.SchemaID = newID
               /\ newID \in DOMAIN cache'.codecByID
               /\ cache'.codecByID[newID].schema = last'.schema
          ELSE cache' = cache ]_vars

\* C12 as stated: registering a text the subject already holds allocates no
\* second id, so no subject holds one text under two ids.
IdempotentRegistration ==
    \A sub \in Subjects : \A i, j \in 1..Len(store[sub]) :
        store[sub][i].Schema = store[sub][j].Schema => store[sub][i].ID = store[sub][j].ID

Count(steps, what) == Cardinality({i \in 1..Len(steps) : steps[i] = what})

\* byte strings with a header Unmarshal accepts: crafted ones and payloads
Framed ==
    {f \in Crafted \cup {p[2] : p \in PayloadsUnder(SchemaV1) \cup PayloadsUnder(SchemaV2)} :
        ReadHeader(f).err = ""}

\* C13: cache-miss resolution.  Unmarshal of a payload whose header id is
\* not in the codec map asks the registry for that id's text once, builds a
\* codec and puts it in the map under that id before any decoding; when the
\* fetch or the construction fails it returns an error, puts nothing in the
\* map and does not ask again.
CacheMiss ==
    cache.live =>
        \A from \in Framed, to \in Destinations, net \in {0, MaxNet} :
            LET ID == ReadHeader(from).ID
                u == Unmarshal(store, cache, from, to, net)
                got == GetSchemaByIDFn(store, ID)
            IN  ID \notin DOMAIN cache.codecByID =>
                /\ u.steps[1] = "GetSchemaByID"
                /\ Count(u.steps, "GetSchemaByID") = 1
                /\ Count(u.steps, "NewCodec") <= 1
                /\ IF net >= 1 /\ ~got.err /\ ~NewCodec(got.schema).err
                   THEN /\ u.steps[2] = "NewCodec"
                        /\ Len(u.steps) >= 3 /\ u.steps[3] = "decode"
                        /\ DOMAIN u.r.codecByID = DOMAIN cache.codecByID \cup {ID}
                        /\ u.r.codecByID[ID].schema = got.schema
                        /\ \A i \in DOMAIN cache.codecByID :
                               u.r.codecByID[i] = cache.codecByID[i]
                   ELSE /\ u.err # ""
                        /\ u.r = cache
                        /\ u.to = to
                        /\ ~Did(u.steps, "decode")

CacheMissWitness ==
    /\ last.op = "Unmarshal"
    /\ last.err = ""
    /\ last.steps = << "GetSchemaByID", "NewCodec", "decode", "Marshal", "Unmarshal",
                       "hit", "decode" >>
    /\ last.hid \in DOMAIN cache.codecByID
    /\ last.hid # cache.SchemaID
    /\ DOMAIN cache.codecByID = {last.hid, cache.SchemaID}

(***************************************************************************)
(* The record mapper in full: Go type names and their Avro names.          *)
(***************************************************************************)
\* the Go names typeConversion knows
ConvertedNames ==
    {"uint8", "uint16", "uint32", "int8", "int16", "int32", "rune",
     "uint", "int", "uint64", "int64", "float32", "float64", "bool"}

\* names the translator is asked about: the table's, Avro's own, and the
\* struct and named types of the tests
TypeNames ==
    ConvertedNames \cup
    {"string", "boolean", "long", "double", "uintptr", "complex64", "MyObject",
     "myObject", "MyURL", "MyEnum", "Child", "FakeURLs", "FakeIMGs", "Address"}

typeConversion ==
    [name \in ConvertedNames |->
        CASE name \in {"uint8", "uint16", "uint32", "int8", "int16", "int32", "rune"} -> "int"
          [] name \in {"uint", "int", "uint64", "int64"} -> "long"
          [] name = "float32" -> "float"
          [] name = "float64" -> "double"
          [] name = "bool" -> "boolean"]

avroBaseTypes == {"null", "boolean", "int", "long", "float", "double", "bytes", "string"}

\* a translator that returns every name as it is
GoToAvroTypeSame(name) == name

GoToAvroType(name) ==
    IF name \in DOMAIN typeConversion THEN typeConversion[name] ELSE name

\* camelcase: a lower-case name is kept; the mixed-case names of the tests
\* are split at their capitals
CamelCaseToSnakeCase(name) ==
    CASE name \in {"MyObject", "myObject"} -> "my_object"
      [] name = "MyURL" -> "my_url"
      [] name = "MyEnum" -> "my_enum"
      [] name = "Child" -> "child"
      [] name = "FakeURLs" -> "fake_ur_ls"
      [] name = "FakeIMGs" -> "fake_im_gs"
      [] name = "UserInfo" -> "user_info"
      [] name = "UserData" -> "user_data"
      [] name = "UserDataOptional" -> "user_data_optional"
      [] name = "EnumEvent" -> "enum_event"
      [] name = "FakeData" -> "fake_data"
      [] name = "CustomString" -> "custom_string"
      [] name = "Address" -> "address"
      [] name = "User" -> "user"
      [] name = "Parent" -> "parent"
      [] OTHER -> name

DefaultTypeNameEncoder(name) == CamelCaseToSnakeCase(GoToAvroType(name))

AddNamespace(namespace, typeName) ==
    IF namespace = "" THEN typeName ELSE namespace \o "." \o typeName

isAvroBaseType(name) == name \in avroBaseTypes

(***************************************************************************)
(* Go types (what reflect tells about them) and Go values.  k is the       *)
(* reflect kind, name the type's name ("" for an unnamed type), namer what *)
(* AvroName returns when the type itself is a TypeNamer (value receiver),  *)
(* ptrNamer what it returns when only the pointer to the type is one       *)
(* (pointer receiver), and unmarshaler what the type's UnmarshalAvro does  *)
(* when its pointer is a CustomUnmarshaler ("" when it is none).           *)
(***************************************************************************)
Basic(kind, name) ==
    [k |-> kind, name |-> name, namer |-> "", ptrNamer |-> "", unmarshaler |-> ""]

PtrTo(t) ==
    [k |-> "ptr", name |-> "", namer |-> "", ptrNamer |-> "", unmarshaler |-> "", elem |-> t]

SliceOf(t) ==
    [k |-> "slice", name |-> "", namer |-> "", ptrNamer |-> "", unmarshaler |-> "", elem |-> t]

GoField(tag, type) == [tag |-> tag, type |-> type]

StructOf(name, namer, fields) ==
    [k |-> "struct", name |-> name, namer |-> namer, ptrNamer |-> "", unmarshaler |-> "",
     fields |-> fields]

GoString == Basic("string", "string")
GoInt == Basic("int", "int")
GoBool == Basic("bool", "bool")
MyEnum == Basic("string", "MyEnum")

\* a string type whose pointer has UnmarshalAvro, which takes the bytes or
\* refuses them
CustomString(does) == [Basic("string", "CustomString") EXCEPT !.unmarshaler = does]

UserInfo == StructOf("UserInfo", "", << GoField("age", GoInt) >>)

UserData == StructOf("UserData", "", << GoField("name", GoString), GoField("age", GoInt) >>)

Address ==
    StructOf("Address", "", << GoField("street", GoString), GoField("city", GoString),
                               GoField("country", GoString), GoField("zip", GoString) >>)

User ==
    StructOf("User", "", << GoField("username", GoString), GoField("age", GoInt),
                            GoField("address", Address) >>)

Child == StructOf("Child", "", << GoField("name", GoString) >>)

Parent == StructOf("Parent", "", << GoField("children", SliceOf(Child)) >>)

\* its fields carry no tag: their names are the keys
UserDataOptional ==
    StructOf("UserDataOptional", "", << GoField("Name", PtrTo(GoString)),
                                        GoField("Age", PtrTo(GoInt)),
                                        GoField("Married", PtrTo(GoBool)) >>)

EnumEvent ==
    StructOf("EnumEvent", "", << GoField("my_required_enum", MyEnum),
                                 GoField("long_id", GoInt),
                                 GoField("string_id", GoString) >>)

\* AvroName has a pointer receiver
FakeURLs ==
    [StructOf("FakeURLs", "", << GoField("url", GoString) >>) EXCEPT !.ptrNamer = "fake_urls"]

FakeIMGs == StructOf("FakeIMGs", "fake_imgs", << GoField("img", GoString) >>)

FakeData ==
    StructOf("FakeData", "", << GoField("fake", FakeURLs), GoField("fake_img", FakeIMGs),
                                GoField("fake_opt", PtrTo(FakeURLs)) >>)

GoInt32 == Basic("int", "int32")

service == StructOf("service", "", << GoField("quantity", PtrTo(GoInt32)) >>)

order == StructOf("order", "", << GoField("services", SliceOf(service)) >>)

Tags(t) == {t.fields[i].tag : i \in 1..Len(t.fields)}

FieldType(t, tag) == t.fields[CHOOSE i \in 1..Len(t.fields) : t.fields[i].tag = tag].type

\* values, Go's and goavro's native ones alike
Str(s) == [k |-> "string", v |-> s]
Num(n) == [k |-> "int", v |-> n]
Bool(b) == [k |-> "bool", v |-> b]
Nil == [k |-> "nil"]
PtrV(v) == [k |-> "ptr", v |-> v]
SliceV(isNil, s) == [k |-> "slice", null |-> isNil, v |-> s]
StructV(f) == [k |-> "struct", f |-> f]
MapV(m) == [k |-> "map", m |-> m]

RECURSIVE Zero(_)
Zero(t) ==
    CASE t.k = "string" -> Str(<< >>)
      [] t.k = "int" -> Num(0)
      [] t.k = "bool" -> Bool(FALSE)
      [] t.k = "ptr" -> Nil
      [] t.k = "slice" -> SliceV(TRUE, << >>)
      [] t.k = "struct" -> StructV([tag \in Tags(t) |-> Zero(FieldType(t, tag))])

(***************************************************************************)
(* Marshal side: encodeUnionHook.                                          *)
(***************************************************************************)
\* the encoders a codec or a cache can hold
encodeTypeName(c, name) ==
    CASE c.TypeNameEncoder = "DefaultTypeNameEncoder" -> DefaultTypeNameEncoder(name)
      [] c.TypeNameEncoder = "CamelCaseToSnakeCase" -> CamelCaseToSnakeCase(name)

\* a resolution that does not look at the pointer to the value
getTypeNameValueOnly(c, t) == IF t.namer # "" THEN t.namer ELSE encodeTypeName(c, t.name)

\* Codec.getTypeName: the value as a TypeNamer, else the pointer to it as
\* one, else the encoder on the type's name
getTypeName(c, t) ==
    IF t.namer # "" THEN t.namer
    ELSE IF t.ptrNamer # "" THEN t.ptrNamer
    ELSE encodeTypeName(c, t.name)

\* a hook that leaves a nil pointer as nil
RECURSIVE encodeUnionHookNilAsNil(_, _, _)
encodeUnionHookNilAsNil(c, t, data) ==
    CASE t.k = "struct" ->
            MapV([tag \in Tags(t) |-> encodeUnionHookNilAsNil(c, FieldType(t, tag), data.f[tag])])
      [] t.k = "slice" ->
            SliceV(FALSE, [i \in 1..Len(data.v) |-> encodeUnionHookNilAsNil(c, t.elem, data.v[i])])
      [] t.k = "ptr" ->
            IF data.k = "nil" THEN Nil
            ELSE LET name == getTypeName(c, t.elem)
                     typeName == IF isAvroBaseType(name) THEN name
                                 ELSE AddNamespace(c.Namespace, name)
                 IN  MapV([key \in {typeName} |-> encodeUnionHookNilAsNil(c, t.elem, data.v)])
      [] OTHER -> data

\* encodeUnionHook for a value of any kind: a struct becomes the map of its
\* tagged fields, each passed through the hook; a slice becomes a (non-nil)
\* slice of hooked elements; a pointer becomes a one-key map, the pointed
\* value under its Avro type name or nil under "null"; anything else is
\* converted to its base type.
RECURSIVE encodeUnionHookOf(_, _, _)
encodeUnionHookOf(c, t, data) ==
    CASE t.k = "struct" ->
            MapV([tag \in Tags(t) |-> encodeUnionHookOf(c, FieldType(t, tag), data.f[tag])])
      [] t.k = "slice" ->
            SliceV(FALSE, [i \in 1..Len(data.v) |-> encodeUnionHookOf(c, t.elem, data.v[i])])
      [] t.k = "ptr" ->
            IF data.k = "nil" THEN MapV([key \in {"null"} |-> Nil])
            ELSE LET name == getTypeName(c, t.elem)
                     typeName == IF isAvroBaseType(name) THEN name
                                 ELSE AddNamespace(c.Namespace, name)
                 IN  MapV([key \in {typeName} |-> encodeUnionHookOf(c, t.elem, data.v)])
      [] OTHER -> data

(***************************************************************************)
(* goavro: schema trees and the binary encoding of native values.          *)
(***************************************************************************)
Prim(type) == [t |-> type, name |-> type]
RecordOf(fullname, fields) == [t |-> "record", name |-> fullname, fields |-> fields]
ArrayOf(items) == [t |-> "array", name |-> "array", items |-> items]
UnionOf(branches) == [t |-> "union", name |-> "union", branches |-> branches]
EnumOf(fullname, symbols) == [t |-> "enum", name |-> fullname, symbols |-> symbols]

\* "value1" and "value2", kept short
Value1 == << 118, 49 >>
Value2 == << 118, 50 >>

FakeURLsSchema == RecordOf("fake_urls", << Field("url", Prim("string"), FALSE, Nil) >>)

SchemaTree(text) ==
    CASE text = "userInfo" ->
            RecordOf("my.example.userInfo", << Field("age", Prim("int"), FALSE, Nil) >>)
      [] text = "userData" ->
            RecordOf("my.example.userData",
                     << Field("age", Prim("int"), FALSE, Nil),
                        Field("name", Prim("string"), FALSE, Nil) >>)
      [] text = "userDataDefault" ->
            RecordOf("my.example.userData",
                     << Field("age", Prim("int"), FALSE, Nil),
                        Field("name", Prim("string"), TRUE, Str(<< >>)) >>)
      [] text = "User" ->
            RecordOf("my.example.User",
                     << Field("username", Prim("string"), FALSE, Nil),
                        Field("age", Prim("int"), FALSE, Nil),
                        Field("address",
                              RecordOf("my.example.mailing_address",
                                       << Field("street", Prim("string"), FALSE, Nil),
                                          Field("city", Prim("string"), FALSE, Nil),
                                          Field("country", Prim("string"), FALSE, Nil),
                                          Field("zip", Prim("string"), FALSE, Nil) >>),
                              FALSE, Nil) >>)
      [] text = "Parent" ->
            RecordOf("Parent",
                     << Field("children",
                              ArrayOf(RecordOf("Child",
                                               << Field("name", Prim("string"), FALSE, Nil) >>)),
                              FALSE, Nil) >>)
      [] text = "userDataOptional" ->
            RecordOf("my.example.userDataOptional",
                     << Field("Age", UnionOf(<< Prim("null"), Prim("int"), Prim("long") >>),
                              FALSE, Nil),
                        Field("Name", UnionOf(<< Prim("null"), Prim("string") >>), TRUE, Nil),
                        Field("Married", UnionOf(<< Prim("null"), Prim("boolean") >>),
                              TRUE, Nil) >>)
      [] text = "authentication_event" ->
            RecordOf("authentication_event",
                     << Field("my_required_enum", EnumOf("my_enum", << Value1, Value2 >>),
                              FALSE, Nil),
                        Field("long_id", Prim("long"), FALSE, Nil),
                        Field("string_id", Prim("string"), FALSE, Nil) >>)
      [] text = "action" ->
            RecordOf("action",
                     << Field("services",
                              ArrayOf(RecordOf("service",
                                               << Field("quantity",
                                                        UnionOf(<< Prim("null"), Prim("int") >>),
                                                        FALSE, Nil) >>)),
                              FALSE, Nil) >>)
      [] text = "fake_data" ->
            RecordOf("fake_data",
                     << Field("fake", FakeURLsSchema, FALSE, Nil),
                        Field("fake_img",
                              RecordOf("fake_imgs",
                                       << Field("img", Prim("string"), FALSE, Nil) >>),
                              FALSE, Nil),
                        Field("fake_opt", UnionOf(<< Prim("null"), FakeURLsSchema >>),
                              FALSE, Nil) >>)

Failed == [err |-> TRUE, bytes |-> << >>]

Bytes(b) == [err |-> FALSE, bytes |-> b]

\* the branches of a union a datum selects: nil selects "null", a one-key
\* map the branch its key names
Selected(branches, datum) ==
    {i \in 1..Len(branches) :
        \/ datum.k = "nil" /\ branches[i].t = "null"
        \/ datum.k = "map" /\ DOMAIN datum.m = {branches[i].name}}

\* a record encoder that knows no defaults
FieldDatumNoDefault(f, m) ==
    IF f.name \in DOMAIN m THEN [none |-> FALSE, v |-> m[f.name]]
    ELSE [none |-> TRUE, v |-> Nil]

\* what a record's encoder encodes for field f of the map m: the value
\* under the field's name, the field's default when the map has no such
\* key, nothing (an error) when there is no default either
FieldDatum(f, m) ==
    IF f.name \in DOMAIN m THEN [none |-> FALSE, v |-> m[f.name]]
    ELSE IF f.hasDefault THEN [none |-> FALSE, v |-> f.default]
    ELSE [none |-> TRUE, v |-> Nil]

RECURSIVE binaryFromNative(_, _)
binaryFromNative(schema, datum) ==
    CASE schema.t = "null" -> IF datum.k = "nil" THEN Bytes(<< >>) ELSE Failed
      [] schema.t = "boolean" ->
            IF datum.k = "bool" THEN Bytes(IF datum.v THEN << 1 >> ELSE << 0 >>) ELSE Failed
      [] schema.t \in {"int", "long"} ->
            IF datum.k = "int" THEN Bytes(EncLong(datum.v)) ELSE Failed
      [] schema.t = "string" ->
            IF datum.k = "string" THEN Bytes(EncString(datum.v)) ELSE Failed
      [] schema.t = "enum" ->
            IF datum.k = "string" /\ \E i \in 1..Len(schema.symbols) : schema.symbols[i] = datum.v
            THEN Bytes(EncLong((CHOOSE i \in 1..Len(schema.symbols) :
                                    schema.symbols[i] = datum.v) - 1))
            ELSE Failed
      [] schema.t = "array" ->
            IF datum.k # "slice" THEN Failed
            ELSE LET items == [i \in 1..Len(datum.v) |-> binaryFromNative(schema.items, datum.v[i])]
                     Join[i \in 0..Len(items)] ==
                         IF i = 0 THEN << >> ELSE Join[i - 1] \o items[i].bytes
                 IN  IF \E i \in 1..Len(items) : items[i].err THEN Failed
                     ELSE IF Len(items) = 0 THEN Bytes(<< 0 >>)
                     ELSE Bytes(EncLong(Len(items)) \o Join[Len(items)] \o << 0 >>)
      [] schema.t = "union" ->
            LET sel == Selected(schema.branches, datum) IN
            IF sel = {} THEN Failed
            ELSE LET i == CHOOSE j \in sel : \A l \in sel : j <= l
                     inner == binaryFromNative(schema.branches[i],
                                               IF datum.k = "nil" THEN Nil
                                               ELSE datum.m[schema.branches[i].name])
                 IN  IF inner.err THEN Failed
                     ELSE Bytes(EncLong(i - 1) \o inner.bytes)
      [] schema.t = "record" ->
            IF datum.k # "map" THEN Failed
            ELSE LET fields == [i \in 1..Len(schema.fields) |->
                                  LET d == FieldDatum(schema.fields[i], datum.m) IN
                                  IF d.none THEN Failed
                                  ELSE binaryFromNative(schema.fields[i].type, d.v)]
                     Join[i \in 0..Len(fields)] ==
                         IF i = 0 THEN << >> ELSE Join[i - 1] \o fields[i].bytes
                 IN  IF \E i \in 1..Len(fields) : fields[i].err THEN Failed
                     ELSE Bytes(Join[Len(fields)])

NoValue == [err |-> TRUE, v |-> Nil, rest |-> << >>]

Value(v, rest) == [err |-> FALSE, v |-> v, rest |-> rest]

RECURSIVE nativeFromBinary(_, _)
RECURSIVE itemsFromBinary(_, _, _, _)
RECURSIVE fieldsFromBinary(_, _, _)
nativeFromBinary(schema, buf) ==
    CASE schema.t = "null" -> Value(Nil, buf)
      [] schema.t = "boolean" ->
            IF buf = << >> \/ Head(buf) > 1 THEN NoValue
            ELSE Value(Bool(Head(buf) = 1), Tail(buf))
      [] schema.t \in {"int", "long"} ->
            LET r == DecLong(buf) IN IF r.err THEN NoValue ELSE Value(Num(r.val), r.rest)
      [] schema.t = "string" ->
            LET r == DecString(buf) IN IF r.err THEN NoValue ELSE Value(Str(r.val), r.rest)
      [] schema.t = "enum" ->
            LET r == DecLong(buf) IN
            IF r.err \/ r.val < 0 \/ r.val >= Len(schema.symbols) THEN NoValue
            ELSE Value(Str(schema.symbols[r.val + 1]), r.rest)
      [] schema.t = "array" -> itemsFromBinary(schema.items, buf, << >>, 0)
      [] schema.t = "union" ->
            LET r == DecLong(buf) IN
            IF r.err \/ r.val < 0 \/ r.val >= Len(schema.branches) THEN NoValue
            ELSE LET branch == schema.branches[r.val + 1]
                     inner == nativeFromBinary(branch, r.rest)
                 IN  IF inner.err THEN NoValue
                     ELSE IF branch.t = "null" THEN Value(Nil, inner.rest)
                     ELSE Value(MapV([key \in {branch.name} |-> inner.v]), inner.rest)
      [] schema.t = "record" -> fieldsFromBinary(schema.fields, buf, << >>)

\* the blocks of an array: left is the number of items still to read in the
\* block at hand; a block count of 0 ends the array, a negative one is
\* followed by the block's size in bytes
itemsFromBinary(items, buf, acc, left) ==
    IF left > 0
    THEN LET r == nativeFromBinary(items, buf) IN
         IF r.err THEN NoValue ELSE itemsFromBinary(items, r.rest, Append(acc, r.v), left - 1)
    ELSE LET count == DecLong(buf) IN
         IF count.err THEN NoValue
         ELSE IF count.val = 0 THEN Value(SliceV(FALSE, acc), count.rest)
         ELSE IF count.val > 0 THEN itemsFromBinary(items, count.rest, acc, count.val)
         ELSE LET size == DecLong(count.rest) IN
              IF size.err THEN NoValue
              ELSE itemsFromBinary(items, size.rest, acc, -count.val)

fieldsFromBinary(fields, buf, acc) ==
    IF Len(acc) = Len(fields)
    THEN Value(MapV([key \in {fields[i].name : i \in 1..Len(fields)} |->
                        acc[CHOOSE i \in 1..Len(fields) : fields[i].name = key]]), buf)
    ELSE LET r == nativeFromBinary(fields[Len(acc) + 1].type, buf) IN
         IF r.err THEN NoValue ELSE fieldsFromBinary(fields, r.rest, Append(acc, r.v))

(***************************************************************************)
(* Unmarshal side: mapstructure with decodeUnionHook as its hook.          *)
(***************************************************************************)
\* reflect.New(to) is a CustomUnmarshaler: never when to is itself a pointer
\* type (a pointer to a pointer has no methods)
IsCustomUnmarshaler(to) == to.k # "ptr" /\ to.unmarshaler # ""

\* a hook that unwraps every map it is given a pointer destination for
decodeUnionHookAnyMap(to, data) ==
    IF to.k = "ptr" /\ data.k = "map" /\ DOMAIN data.m # {}
    THEN [err |-> "", out |-> data.m[CHOOSE key \in DOMAIN data.m : TRUE]]
    ELSE [err |-> "", out |-> data]

\* a hook that unwraps nothing
decodeUnionHookNoUnwrap(to, data) == [err |-> "", out |-> data]

decodeUnionHook(to, data) ==
    IF to.k = "ptr" /\ data.k # "nil" /\ data.k = "map" /\ Cardinality(DOMAIN data.m) = 1
    THEN [err |-> "", out |-> data.m[CHOOSE key \in DOMAIN data.m : TRUE]]
    ELSE IF IsCustomUnmarshaler(to)
         THEN IF data.k # "string" THEN [err |-> "panic", out |-> Nil]
              ELSE IF to.unmarshaler = "refuses" THEN [err |-> "UnmarshalAvro", out |-> Nil]
              ELSE [err |-> "", out |-> PtrV(data)]
         ELSE [err |-> "", out |-> data]

\* mapstructure's decode of data into a destination of type to holding val:
\* nil data leaves the destination alone; otherwise the hook runs and the
\* result is decoded by the destination's kind.  A struct takes the keys its
\* tags name and keeps its other fields; a pointer decodes into what it points
\* to (a new zero value when it is nil); a nil slice is made anew with the
\* length of the data.
RECURSIVE decode(_, _, _)
decode(to, data, val) ==
    IF data.k = "nil" THEN [err |-> "", v |-> val]
    ELSE LET hook == decodeUnionHook(to, data)
             in == IF hook.out.k = "ptr" THEN hook.out.v ELSE hook.out
         IN
         IF hook.err # "" THEN [err |-> hook.err, v |-> val]
         ELSE CASE to.k \in {"string", "int", "bool"} ->
                      IF in.k = to.k THEN [err |-> "", v |-> in]
                      ELSE [err |-> "expected type", v |-> val]
                [] to.k = "struct" ->
                      IF in.k # "map" THEN [err |-> "expected a map", v |-> val]
                      ELSE LET fs == [tag \in Tags(to) |->
                                        IF tag \in DOMAIN in.m
                                        THEN decode(FieldType(to, tag), in.m[tag], val.f[tag])
                                        ELSE [err |-> "", v |-> val.f[tag]]]
                           IN  [err |-> IF \E tag \in Tags(to) : fs[tag].err # ""
                                        THEN "error(s) decoding" ELSE "",
                                v |-> StructV([tag \in Tags(to) |-> fs[tag].v])]
                [] to.k = "ptr" ->
                      LET inner == decode(to.elem, in,
                                          IF val.k = "nil" THEN Zero(to.elem) ELSE val.v)
                      IN  IF inner.err # "" THEN [err |-> inner.err, v |-> val]
                          ELSE [err |-> "", v |-> PtrV(inner.v)]
                [] to.k = "slice" ->
                      IF in.k # "slice" THEN [err |-> "source data must be an array or slice", v |-> val]
                      ELSE LET es == [i \in 1..Len(in.v) |->
                                        decode(to.elem, in.v[i],
                                               IF i <= Len(val.v) THEN val.v[i] ELSE Zero(to.elem))]
                           IN  [err |-> IF \E i \in 1..Len(es) : es[i].err # ""
                                        THEN "error(s) decoding" ELSE "",
                                v |-> SliceV(FALSE, [i \in 1..Len(es) |-> es[i].v])]

\* Codec.marshal: the hook on the value (or on what it points to), then the
\* binary encoding
marshal(c, t, data) == binaryFromNative(SchemaTree(c.schema), encodeUnionHookOf(c, t, data))

\* Codec.unmarshal: a failed binary decode returns before the destination
\* is touched
unmarshal(c, avro, t, output) ==
    LET r == nativeFromBinary(SchemaTree(c.schema), avro) IN
    IF r.err THEN [err |-> "NativeFromBinary", v |-> output]
    ELSE decode(t, r.v, output)

(***************************************************************************)
(* The values given to the record mapper: every value of the test types    *)
(* built from a few strings and numbers, slices of up to MaxItems items.   *)
(***************************************************************************)
\* items in a slice
MaxItems == 2

RECURSIVE ValuesOf(_)
ValuesOf(t) ==
    CASE t.k = "string" ->
            IF t.name = "MyEnum" THEN {Str(<< >>), Str(Value1), Str(Value2)}
            ELSE {Str(<< >>), Str(<< 78 >>)}
      [] t.k = "int" -> {Num(0), Num(64)}
      [] t.k = "bool" -> {Bool(FALSE), Bool(TRUE)}
      [] t.k = "ptr" -> {Nil} \cup {PtrV(v) : v \in ValuesOf(t.elem)}
      [] t.k = "slice" ->
            {SliceV(TRUE, << >>)} \cup
            {SliceV(FALSE, s) : s \in UNION {[1..n -> ValuesOf(t.elem)] : n \in 0..MaxItems}}
      [] t.k = "struct" ->
            LET of == [i \in 1..Len(t.fields) |-> ValuesOf(t.fields[i].type)]
                Rows[i \in 0..Len(t.fields)] ==
                    IF i = 0 THEN {<< >>}
                    ELSE {Append(row, v) : row \in Rows[i - 1], v \in of[i]}
            IN  {StructV([tag \in Tags(t) |->
                            row[CHOOSE i \in 1..Len(t.fields) : t.fields[i].tag = tag]]) :
                     row \in Rows[Len(t.fields)]}

\* a schema text and a Go type used with its codec
Pairs ==
    {<< "userInfo", UserInfo >>, << "userInfo", UserData >>,
     << "userData", UserInfo >>, << "userData", UserData >>,
     << "userDataDefault", UserInfo >>, << "userDataDefault", UserData >>,
     << "User", User >>, << "Parent", Parent >>,
     << "userDataOptional", UserDataOptional >>,
     << "authentication_event", EnumEvent >>, << "fake_data", FakeData >>,
     << "action", order >>}

\* destinations and data the decode hook is called with
HookTypes ==
    {GoString, FakeURLs, CustomString("takes"), CustomString("refuses"),
     PtrTo(GoString), PtrTo(FakeURLs), PtrTo(CustomString("takes"))}

HookData ==
    {Nil, Str(<< 78 >>), MapV(<< >>),
     MapV([key \in {"string"} |-> Str(<< 78 >>)]),
     MapV([key \in {"fake_urls"} |-> MapV([k2 \in {"url"} |-> Str(<< 78 >>)])]),
     MapV([key \in {"url"} |-> Str(<< 78 >>)]),
     MapV([key \in {"street", "city"} |-> Str(<< 78 >>)]),
     MapV([key \in {"street", "city", "zip"} |-> Str(<< >>)])}

(***************************************************************************)
(* Calls of the record mapper on its own (no registry, no cache): last     *)
(* holds the call and its result.                                          *)
(***************************************************************************)
InitCodec ==
    /\ store = [sub \in Subjects |-> << >>]
    /\ newID = 0
    /\ cache = NilCache
    /\ last = [op |-> ""]

CallGoToAvroType(name) ==
    /\ last' = [op |-> "GoToAvroType", name |-> name, out |-> GoToAvroType(name)]
    /\ UNCHANGED <<store, newID, cache>>

CallDecodeUnionHook(to, data) ==
    /\ last' = [op |-> "decodeUnionHook", to |-> to, data |-> data,
                err |-> decodeUnionHook(to, data).err,
                out |-> decodeUnionHook(to, data).out]
    /\ UNCHANGED <<store, newID, cache>>

\* Codec.Marshal of a value (or of a pointer to it) with a new codec
CallCodecMarshal(text, t, v) ==
    /\ ~NewCodec(text).err
    /\ LET m == marshal(NewCodec(text).codec, t, v) IN
       last' = [op |-> "Codec.Marshal", schema |-> text, type |-> t, v |-> v,
                native |-> encodeUnionHookOf(NewCodec(text).codec, t, v),
                err |-> m.err, avro |-> m.bytes]
    /\ UNCHANGED <<store, newID, cache>>

\* Codec.Unmarshal of the bytes Marshal returned, with the same codec, into
\* a fresh destination of the value's type
CallCodecUnmarshal ==
    /\ last.op = "Codec.Marshal"
    /\ ~last.err
    /\ LET u == unmarshal(NewCodec(last.schema).codec, last.avro, last.type, Zero(last.type)) IN
       last' = [op |-> "Codec.Unmarshal", schema |-> last.schema, type |-> last.type,
                v |-> last.v, err |-> u.err, out |-> u.v]
    /\ UNCHANGED <<store, newID, cache>>

\* a caller's destination type whose name field is a number where the
\* userData schema has a string: struct { Name int `avro:"name"`; Age int `avro:"age"` }
Mistyped == StructOf("Mistyped", "", << GoField("name", GoInt), GoField("age", GoInt) >>)

\* destination types handed to Codec.Unmarshal for a userData payload
DestinationTypes == {UserInfo, UserData, Mistyped}

\* Codec.Unmarshal of the bytes Marshal returned (whole, or without their
\* last cut bytes) into a fresh destination of a type the caller chose
CallCodecUnmarshalInto(t, cut) ==
    /\ last.op = "Codec.Marshal"
    /\ ~last.err
    /\ last.schema = "userData"
    /\ cut <= Len(last.avro)
    /\ LET avro == SubSeq(last.avro, 1, Len(last.avro) - cut)
           u == unmarshal(NewCodec(last.schema).codec, avro, t, Zero(t))
       IN  last' = [op |-> "Codec.Unmarshal into", schema |-> last.schema, type |-> t,
                    avro |-> avro, before |-> Zero(t), err |-> u.err, out |-> u.v]
    /\ UNCHANGED <<store, newID, cache>>

\* the types pointers point to, and the codecs that name them
PointedTypes ==
    {GoString, GoInt, GoInt32, GoBool, MyEnum, FakeURLs, FakeIMGs, Address, Child, service}

\* getTypeName on a value of type t and the key encodeUnionHook gives the
\* map of a pointer to it, with the codec of the schema text, its encoder
\* as NewCodec set it or replaced by the cache's
CallGetTypeName(text, typeNameEncoder, t) ==
    /\ ~NewCodec(text).err
    /\ LET c == [NewCodec(text).codec EXCEPT !.TypeNameEncoder = typeNameEncoder]
           out == encodeUnionHookOf(c, PtrTo(t), PtrV(Zero(t)))
       IN  last' = [op |-> "getTypeName", schema |-> text, encoder |-> typeNameEncoder,
                    type |-> t, name |-> getTypeName(c, t),
                    key |-> CHOOSE k \in DOMAIN out.m : TRUE]
    /\ UNCHANGED <<store, newID, cache>>

NextCodec ==
    \/ \E name \in TypeNames : CallGoToAvroType(name)
    \/ \E text \in {"User", "fake_data"},
          typeNameEncoder \in {"DefaultTypeNameEncoder", "CamelCaseToSnakeCase"},
          t \in PointedTypes : CallGetTypeName(text, typeNameEncoder, t)
    \/ \E to \in HookTypes, data \in HookData : CallDecodeUnionHook(to, data)
    \/ \E p \in Pairs : \E v \in ValuesOf(p[2]) : CallCodecMarshal(p[1], p[2], v)
    \/ CallCodecUnmarshal
    \/ \E t \in DestinationTypes, cut \in {0, 1} : CallCodecUnmarshalInto(t, cut)

SpecCodec == InitCodec /\ [][NextCodec]_vars

\* C18 as stated: the boolean name passes through like every name outside
\* the integer and float rows.
GoToAvroTypeStated ==
    last.op = "GoToAvroType" =>
        last.out = CASE last.name \in {"uint8", "uint16", "uint32",
                                       "int8", "int16", "int32", "rune"} -> "int"
                     [] last.name \in {"uint", "int", "uint64", "int64"} -> "long"
                     [] last.name = "float32" -> "float"
                     [] last.name = "float64" -> "double"
                     [] OTHER -> last.name

\* C18: GoToAvroType maps the 8-, 16- and 32-bit integer names and rune to
\* "int", the 64-bit and platform-width integer names to "long", float32 to
\* "float", float64 to "double", bool to "boolean", and returns every other
\* name unchanged.
GoToAvroTypeTable ==
    last.op = "GoToAvroType" =>
        last.out = CASE last.name \in {"uint8", "uint16", "uint32",
                                       "int8", "int16", "int32", "rune"} -> "int"
                     [] last.name \in {"uint", "int", "uint64", "int64"} -> "long"
                     [] last.name = "float32" -> "float"
                     [] last.name = "float64" -> "double"
                     [] last.name = "bool" -> "boolean"
                     [] OTHER -> last.name

GoToAvroTypeWitness ==
    /\ last.op = "GoToAvroType"
    /\ last.name = "bool"
    /\ last.out = "boolean"

\* C14: union unwrap rule.  In the decode hook, for a pointer destination
\* and a non-nil source, a map with exactly one key is replaced by that
\* key's value; a map with two or more keys is passed through unaltered.
UnionUnwrap ==
    (last.op = "decodeUnionHook" /\ last.to.k = "ptr" /\ last.data.k = "map") =>
        /\ Cardinality(DOMAIN last.data.m) = 1 =>
              /\ last.err = ""
              /\ \A key \in DOMAIN last.data.m : last.out = last.data.m[key]
        /\ Cardinality(DOMAIN last.data.m) >= 2 =>
              /\ last.err = ""
              /\ last.out = last.data

UnionUnwrapWitness ==
    /\ last.op = "decodeUnionHook"
    /\ last.to = PtrTo(FakeURLs)
    /\ last.data.k = "map"
    /\ DOMAIN last.data.m = {"street", "city"}
    /\ last.out = last.data

\* the schema fields the Go type t has no field for
Missing(text, t) ==
    {i \in 1..Len(SchemaTree(text).fields) : SchemaTree(text).fields[i].name \notin Tags(t)}

\* the map the hook makes of v, with the defaults of the missing fields
WithDefaults(text, t, v) ==
    LET fields == SchemaTree(text).fields
        m == encodeUnionHookOf(NewCodec(text).codec, t, v).m
    IN  MapV([key \in DOMAIN m \cup {fields[i].name : i \in Missing(text, t)} |->
                 IF key \in DOMAIN m THEN m[key]
                 ELSE fields[CHOOSE i \in Missing(text, t) : fields[i].name = key].default])

\* C15: missing-field policy.  Codec.Marshal of a value whose type has no
\* field for a schema field fails when that schema field declares no
\* default; when it declares one, Marshal succeeds, the bytes are those of
\* the value with the default in the field's place, and Unmarshal of them
\* into the value's type gives back an equal value.
MissingFieldPolicy ==
    /\ (last.op = "Codec.Marshal" /\ Missing(last.schema, last.type) # {}) =>
          IF \E i \in Missing(last.schema, last.type) :
                 ~SchemaTree(last.schema).fields[i].hasDefault
          THEN last.err
          ELSE /\ ~last.err
               /\ last.avro = binaryFromNative(SchemaTree(last.schema),
                                   WithDefaults(last.schema, last.type, last.v)).bytes
    /\ (last.op = "Codec.Unmarshal" /\ Missing(last.schema, last.type) # {}) =>
          /\ last.err = ""
          /\ last.out = last.v

MissingFieldPolicyWitness ==
    /\ last.op = "Codec.Unmarshal"
    /\ last.schema = "userDataDefault"
    /\ last.type = UserInfo
    /\ last.v = StructV([tag \in {"age"} |-> Num(64)])
    /\ last.out = last.v

\* the field of a record schema that a tag names
SchemaField(schema, tag) ==
    schema.fields[CHOOSE i \in 1..Len(schema.fields) : schema.fields[i].name = tag]

SchemaNames(schema) == {schema.fields[i].name : i \in 1..Len(schema.fields)}

\* the branch of a union schema a (non-nil) pointer to a t selects
BranchFor(c, schema, t) ==
    LET name == getTypeName(c, t)
        typeName == IF isAvroBaseType(name) THEN name ELSE AddNamespace(c.Namespace, name)
    IN  schema.branches[CHOOSE i \in 1..Len(schema.branches) :
                            schema.branches[i].name = typeName]

\* what is left of a value of type t once it has been through a schema: a
\* struct field the schema has no field for holds its zero value, and a nil
\* slice has become an empty one
RECURSIVE Kept(_, _, _, _)
Kept(c, schema, t, v) ==
    CASE t.k = "struct" ->
            StructV([tag \in Tags(t) |->
                        IF tag \in SchemaNames(schema)
                        THEN Kept(c, SchemaField(schema, tag).type, FieldType(t, tag), v.f[tag])
                        ELSE Zero(FieldType(t, tag))])
      [] t.k = "slice" ->
            SliceV(FALSE, [i \in 1..Len(v.v) |-> Kept(c, schema.items, t.elem, v.v[i])])
      [] t.k = "ptr" ->
            IF v.k = "nil" THEN Nil
            ELSE PtrV(Kept(c, BranchFor(c, schema, t.elem), t.elem, v.v))
      [] OTHER -> v

\* a value with a nil slice somewhere in it
RECURSIVE HasNilSlice(_, _)
HasNilSlice(t, v) ==
    CASE t.k = "struct" -> \E tag \in Tags(t) : HasNilSlice(FieldType(t, tag), v.f[tag])
      [] t.k = "slice" -> v.null \/ \E i \in 1..Len(v.v) : HasNilSlice(t.elem, v.v[i])
      [] t.k = "ptr" -> v.k # "nil" /\ HasNilSlice(t.elem, v.v)
      [] OTHER -> FALSE

SetTypeNameEncoderAll ==
    [][ /\ last'.op = "SetTypeNameEncoder" =>
              /\ cache'.TypeNameEncoder = last'.encoder
              /\ DOMAIN cache'.codecByID = DOMAIN cache.codecByID
              /\ \A id \in DOMAIN cache.codecByID :
                     cache'.codecByID[id] =
                         [cache.codecByID[id] EXCEPT !.TypeNameEncoder = last'.encoder]
              /\ [cache' EXCEPT !.codecByID = cache.codecByID,
                                !.TypeNameEncoder = cache.TypeNameEncoder] = cache
        /\ last'.op = "TypeNameEncoder =" =>
              /\ cache'.TypeNameEncoder = last'.encoder
              /\ cache'.codecByID = cache.codecByID ]_vars

SetTypeNameEncoderAllWitness ==
    /\ last.op = "SetTypeNameEncoder"
    /\ last.encoder = "CamelCaseToSnakeCase"
    /\ Cardinality(DOMAIN cache.codecByID) >= 2
    /\ \A id \in DOMAIN cache.codecByID :
           cache.codecByID[id].TypeNameEncoder = "CamelCaseToSnakeCase"

\* C19: schema reconciliation.  When the header id differs from the cache's
\* current id and the current id is not -1, Unmarshal (i) decodes the body
\* with the header id's codec into a fresh generic map, (ii) re-encodes that
\* map under the current id, (iii) decodes the new bytes into the caller's
\* destination with the current codec, in this order; a failure in (i) or
\* (ii) leaves the destination as it was, and after (iii) the destination
\* holds what decoding the re-encoded payload, written under the current
\* schema, gives.
Reconciliation ==
    cache.live =>
        \A from \in Framed, to \in Destinations, net \in {0, MaxNet} :
            LET ID == ReadHeader(from).ID
                u == Unmarshal(store, cache, from, to, net)
                got == getCodecByID(store, cache, ID, net)
                tmp == CodecUnmarshal(got.codec, ReadHeader(from).body, EmptyMap)
                enc == Marshal(got.r, tmp.output)
                current == got.r.codecByID[got.r.SchemaID]
            IN  (got.err = "" /\ ID # cache.SchemaID /\ cache.SchemaID # UnknownID) =>
                    IF tmp.err
                    THEN /\ u.err # ""
                         /\ u.steps = got.steps \o << "decode" >>
                         /\ u.to = to
                    ELSE IF enc.err # ""
                    THEN /\ u.err # ""
                         /\ u.steps = got.steps \o << "decode", "Marshal" >>
                         /\ u.to = to
                    ELSE /\ u.steps = got.steps \o
                                      << "decode", "Marshal", "Unmarshal", "hit", "decode" >>
                         /\ ReadHeader(enc.bytes).ID = cache.SchemaID
                         /\ enc.bytes = WriteHeader(cache.SchemaID) \o
                                        CodecMarshal(current, tmp.output).bytes
                         /\ u.err = ""
                         /\ u.to = CodecUnmarshal(current, ReadHeader(enc.bytes).body, to).output

ReconciliationWitness ==
    /\ last.op = "Unmarshal"
    /\ last.err = ""
    /\ last.id # UnknownID
    /\ last.hid # last.id
    /\ last.steps = << "hit", "decode", "Marshal", "Unmarshal", "hit", "decode" >>
    /\ CurrentSchema(cache) = SchemaV2
    /\ last.to = NativeMap({"name", "age", "height"}, << 78, 105 >>, 36, 150)

(***************************************************************************)
(* Unmarshal as src/codec_registry.go has it: after the header it calls    *)
(* itself on the rest of the bytes.  One step per call frame; last holds   *)
(* the frame at hand: the bytes given to the outermost call, the bytes of  *)
(* this frame, and the number of calls below the outermost one.            *)
(***************************************************************************)
\* call frames followed below the outermost one
MaxDepth == 3
\* length of the byte strings given
MaxBytes == 6

Inputs == UNION {[1..n -> {0, 1}] : n \in 0..MaxBytes}

InitRecursion ==
    /\ store = [sub \in Subjects |-> << >>]
    /\ newID = 0
    /\ cache = NilCache
    /\ last = [op |-> ""]

\* r.Unmarshal(from, to) is called
EnterUnmarshal(from) ==
    /\ last' = [op |-> "Unmarshal", input |-> from, from |-> from, depth |-> 0,
                returned |-> FALSE, err |-> ""]
    /\ UNCHANGED <<store, newID, cache>>

\* the frame at hand runs: it returns the header's error, or calls
\* r.Unmarshal(binBuffer.Bytes(), to)
StepUnmarshal ==
    /\ last.op = "Unmarshal"
    /\ ~last.returned
    /\ LET header == ReadHeader(last.from) IN
       IF header.err # ""
       THEN last' = [last EXCEPT !.returned = TRUE, !.err = header.err]
       ELSE /\ last.depth < MaxDepth
            /\ last' = [last EXCEPT !.from = header.body, !.depth = @ + 1]
    /\ UNCHANGED <<store, newID, cache>>

NextRecursion ==
    \/ \E from \in Inputs : EnterUnmarshal(from)
    \/ StepUnmarshal

SpecRecursion == InitRecursion /\ [][NextRecursion]_vars

\* C20 as stated: an Unmarshal call makes at most one recursive call.
RecursionDepthStated ==
    last.op = "Unmarshal" => last.depth <= 1

\* C21 as stated: in every state of a cache either the current id is -1 or
\* the codec map holds an entry for the current id.
CurrentCodecPresent ==
    cache.live => (cache.SchemaID = UnknownID \/ cache.SchemaID \in DOMAIN cache.codecByID)

\* C22 as stated: across Register and Unmarshal calls no entry of the codec
\* map is removed or replaced, and no codec is built and no schema fetched
\* for an id the map already holds.
CodecsCreatedOnce ==
    [][ (cache.live /\ last'.op \in {"Register", "Unmarshal"}) =>
            /\ \A id \in DOMAIN cache.codecByID :
                   /\ id \in DOMAIN cache'.codecByID
                   /\ cache'.codecByID[id] = cache.codecByID[id]
            /\ (last'.op = "Unmarshal" /\ last'.hid \in DOMAIN cache.codecByID) =>
                   (~Did(last'.steps, "GetSchemaByID") /\ ~Did(last'.steps, "NewCodec"))
            /\ (last'.op = "Register" /\ last'.err = "") =>
                   cache'.SchemaID \notin DOMAIN cache.codecByID ]_vars

\* C23: frame of the data path.  An Unmarshal step leaves the cache's
\* current id, version, subject and encoder as they were, keeps every entry
\* of the codec map and adds at most one, under the header's id; a Marshal
\* step leaves the cache and the registry as they were.
DataPathFrame ==
    [][ /\ last'.op = "Unmarshal" =>
              /\ cache'.SchemaID = cache.SchemaID
              /\ cache'.SchemaVersion = cache.SchemaVersion
              /\ [cache' EXCEPT !.codecByID = cache.codecByID] = cache
              /\ DOMAIN cache'.codecByID \subseteq DOMAIN cache.codecByID \cup {last'.hid}
              /\ \A id \in DOMAIN cache.codecByID :
                     /\ id \in DOMAIN cache'.codecByID
                     /\ cache'.codecByID[id] = cache.codecByID[id]
              /\ store' = store /\ newID' = newID
        /\ last'.op = "Marshal" =>
              (cache' = cache /\ store' = store /\ newID' = newID) ]_vars

DataPathFrameWitness ==
    /\ last.op = "Unmarshal"
    /\ last.err = ""
    /\ last.steps = << "GetSchemaByID", "NewCodec", "decode" >>
    /\ cache.SchemaID = UnknownID
    /\ DOMAIN cache.codecByID = {last.hid}

\* C24 as stated: a decode that returns an error, at whichever stage, leaves
\* the caller's destination as it was before the call.
DestinationKeptOnError ==
    (last.op = "Codec.Unmarshal into" /\ last.err # "") => last.out = last.before

\* C25: repeatable decode.  With the registry and the current id as they
\* are, Unmarshal of the same bytes a second time, into a fresh destination
\* equal to the first, on the cache as the first call left it, returns the
\* same error or fills the destination with the same contents.
RepeatableDecode ==
    cache.live =>
        \A from \in Framed, to \in Destinations, net \in {0, MaxNet} :
            LET first == Unmarshal(store, cache, from, to, net)
                second == Unmarshal(store, first.r, from, to, net)
            IN  /\ second.err = first.err
                /\ second.to = first.to
                /\ second.r = first.r

\* a first call that resolved the header's id, reconciled and filled the
\* destination
RepeatableDecodeWitness ==
    /\ cache.live
    /\ \E from \in Framed :
           LET first == Unmarshal(store, cache, from, ZeroPerson, MaxNet) IN
           /\ first.err = ""
           /\ first.r # cache
           /\ Reconcile(cache, ReadHeader(from).ID)
           /\ first.to # ZeroPerson
           /\ Unmarshal(store, first.r, from, ZeroPerson, MaxNet).steps # first.steps

(***************************************************************************)
(* Two callers in Unmarshal on one cache at the same time, for bytes whose *)
(* header id the codec map does not hold.  getCodecByID is taken in its    *)
(* steps: the map read, the registry call, the codec construction, the map *)
(* write; each map read and each map write is one step.  last holds both   *)
(* callers: where each one is (pc), its locals (raw, codec), its           *)
(* destination and result, and the cache as it was when they started.      *)
(***************************************************************************)
Callers == {1, 2}

Racing == last.op = "race" /\ \E p \in Callers : last.pc[p] # "done"

\* a map write that keeps nothing but the entry written
InsertCodecAlone(r, ID, codec) == [r EXCEPT !.codecByID = (ID :> codec)]

\* r.codecByID[ID] = codec
InsertCodec(r, ID, codec) == [r EXCEPT !.codecByID = (ID :> codec) @@ @]

\* both callers enter Unmarshal(from, to) and read the header
StartRace(from, to1, to2) ==
    /\ cache.live
    /\ ~Racing
    /\ ReadHeader(from).err = ""
    /\ ReadHeader(from).ID \notin DOMAIN cache.codecByID
    /\ last' = [op |-> "race", from |-> from, hid |-> ReadHeader(from).ID, before |-> cache,
                pc |-> [p \in Callers |-> "lookup"],
                raw |-> [p \in Callers |-> ""],
                codec |-> [p \in Callers |-> NewCodec(EmptySchema).codec],
                dest |-> << to1, to2 >>, to |-> << to1, to2 >>,
                err |-> [p \in Callers |-> ""],
                fetched |-> 0, built |-> 0]
    /\ UNCHANGED <<store, newID, cache>>

\* codec, ok := r.codecByID[ID]
Lookup(p) ==
    /\ Racing /\ last.pc[p] = "lookup"
    /\ last' = IF last.hid \in DOMAIN cache.codecByID
               THEN [last EXCEPT !.pc[p] = "decode", !.codec[p] = cache.codecByID[last.hid]]
               ELSE [last EXCEPT !.pc[p] = "fetch"]
    /\ UNCHANGED <<store, newID, cache>>

\* rawSchema, err := r.Registry.GetSchemaByID(int(ID))
Fetch(p) ==
    /\ Racing /\ last.pc[p] = "fetch"
    /\ LET got == GetSchemaByIDFn(store, last.hid) IN
       last' = IF got.err
               THEN [last EXCEPT !.pc[p] = "done", !.err[p] = "schema not found",
                                 !.fetched = @ + 1]
               ELSE [last EXCEPT !.pc[p] = "build", !.raw[p] = got.schema,
                                 !.fetched = @ + 1]
    /\ UNCHANGED <<store, newID, cache>>

\* codec, err = NewCodec(rawSchema)
Build(p) ==
    /\ Racing /\ last.pc[p] = "build"
    /\ LET nc == NewCodec(last.raw[p]) IN
       last' = IF nc.err
               THEN [last EXCEPT !.pc[p] = "done", !.err[p] = "NewCodec error",
                                 !.built = @ + 1]
               ELSE [last EXCEPT !.pc[p] = "insert", !.codec[p] = nc.codec,
                                 !.built = @ + 1]
    /\ UNCHANGED <<store, newID, cache>>

\* r.codecByID[ID] = codec
Insert(p) ==
    /\ Racing /\ last.pc[p] = "insert"
    /\ cache' = InsertCodec(cache, last.hid, last.codec[p])
    /\ last' = [last EXCEPT !.pc[p] = "decode"]
    /\ UNCHANGED <<store, newID>>

\* the rest of Unmarshal with the codec the caller holds: it reads the
\* current id and, to reconcile, the current id's entry, which no caller
\* writes, and writes nothing but the caller's destination
Finish(p) ==
    /\ Racing /\ last.pc[p] = "decode"
    /\ LET u == Unmarshal(store, InsertCodec(cache, last.hid, last.codec[p]),
                          last.from, last.dest[p], MaxNet)
       IN  last' = [last EXCEPT !.pc[p] = "done", !.err[p] = u.err, !.to[p] = u.to]
    /\ UNCHANGED <<store, newID, cache>>

NextRace ==
    \/ \E p \in ThirdParty : ~Racing /\ RegistryRegisterNewSchema(p[1], p[2])
    \/ \E schema \in {SchemaV1, SchemaV2, EmptySchema} :
           CallNewCodecRegistryAndRegister(TRUE, "test", schema, MaxNet)
    \/ \E from \in Framed, to1, to2 \in Destinations : StartRace(from, to1, to2)
    \/ \E p \in Callers : Lookup(p)
    \/ \E p \in Callers : Fetch(p)
    \/ \E p \in Callers : Build(p)
    \/ \E p \in Callers : Insert(p)
    \/ \E p \in Callers : Finish(p)

SpecRace == Init /\ [][NextRace]_vars

\* C26: racing cache-miss resolution.  In every interleaving of the two
\* callers' steps, every entry the codec map held when they started is still
\* there with its codec, the only entry added is the header id's and it is
\* the codec of that id's text in the registry, the rest of the cache is as
\* it was, and a caller that has returned has the error and the destination
\* contents that the call alone on the starting cache gives; when both have
\* returned without error the map holds the id and the registry was asked at
\* most twice.
RacingCacheMiss ==
    last.op = "race" =>
        /\ \A id \in DOMAIN last.before.codecByID :
               /\ id \in DOMAIN cache.codecByID
               /\ cache.codecByID[id] = last.before.codecByID[id]
        /\ DOMAIN cache.codecByID \subseteq DOMAIN last.before.codecByID \cup {last.hid}
        /\ last.hid \in DOMAIN cache.codecByID =>
               /\ ~GetSchemaByIDFn(store, last.hid).err
               /\ cache.codecByID[last.hid] =
                      NewCodec(GetSchemaByIDFn(store, last.hid).schema).codec
        /\ [cache EXCEPT !.codecByID = last.before.codecByID] = last.before
        /\ \A p \in Callers :
               last.pc[p] = "done" =>
                   LET alone == Unmarshal(store, last.before, last.from, last.dest[p], MaxNet)
                   IN  /\ last.err[p] = alone.err
                       /\ last.to[p] = alone.to
                       /\ last.err[p] = "" => cache.codecByID = alone.r.codecByID
        /\ last.fetched <= 2 /\ last.built <= 2

\* both callers missed, both asked the registry and built a codec, both
\* reconciled and filled their destinations
RacingCacheMissWitness ==
    /\ last.op = "race"
    /\ \A p \in Callers : last.pc[p] = "done" /\ last.err[p] = ""
    /\ last.fetched = 2 /\ last.built = 2
    /\ Reconcile(last.before, last.hid)
    /\ last.to[1] # last.dest[1]
    /\ last.to[2] # last.dest[2]
    /\ DOMAIN cache.codecByID = DOMAIN last.before.codecByID \cup {last.hid}

\* C27 as stated: when the cache has an encoder and every codec of the map
\* uses it, a Register or an Unmarshal step leaves a map in which every
\* codec, the ones the step created included, uses the cache's encoder.
EncoderOnNewCodecs ==
    [][ ( /\ last'.op \in {"Register", "Unmarshal"}
          /\ cache.TypeNameEncoder # ""
          /\ \A id \in DOMAIN cache.codecByID :
                 cache.codecByID[id].TypeNameEncoder = cache.TypeNameEncoder ) =>
            \A id \in DOMAIN cache'.codecByID :
                cache'.codecByID[id].TypeNameEncoder = cache'.TypeNameEncoder ]_vars

\* what the hook must give for a value v of type t: a nil pointer is the
\* map {"null": nil}; a pointer to a value is a map with one key, the name
\* of what it points to, over the mapping of that value; a struct is the map
\* of its fields and a slice the slice of its elements, each mapped the same
\* way; every other value is itself
RECURSIVE Mapped(_, _, _, _)
Mapped(c, t, v, out) ==
    CASE t.k = "ptr" ->
            /\ out.k = "map"
            /\ Cardinality(DOMAIN out.m) = 1
            /\ IF v.k = "nil"
               THEN DOMAIN out.m = {"null"} /\ out.m["null"] = Nil
               ELSE LET name == getTypeName(c, t.elem)
                        key == CHOOSE k \in DOMAIN out.m : TRUE
                    IN  /\ key = IF isAvroBaseType(name) THEN name
                                 ELSE AddNamespace(c.Namespace, name)
                        /\ Mapped(c, t.elem, v.v, out.m[key])
      [] t.k = "struct" ->
            /\ out.k = "map"
            /\ DOMAIN out.m = Tags(t)
            /\ \A tag \in Tags(t) : Mapped(c, FieldType(t, tag), v.f[tag], out.m[tag])
      [] t.k = "slice" ->
            /\ out.k = "slice"
            /\ Len(out.v) = Len(v.v)
            /\ \A i \in 1..Len(v.v) : Mapped(c, t.elem, v.v[i], out.v[i])
      [] OTHER -> out = v

\* C28: optional-value wrapping.  For every value given to Marshal, the
\* hook's result maps each nil pointer to {"null": nil} and each other
\* pointer to a one-key map from the name of what it points to to the mapping
\* of that value, in record fields and in array elements at every depth.
OptionalWrapping ==
    last.op = "Codec.Marshal" =>
        Mapped(NewCodec(last.schema).codec, last.type, last.v, last.native)

\* an order of two services, one without a quantity and one with
OptionalWrappingWitness ==
    /\ last.op = "Codec.Marshal"
    /\ last.type = order
    /\ ~last.err
    /\ last.native =
           MapV([tag \in {"services"} |->
                   SliceV(FALSE,
                          << MapV([t2 \in {"quantity"} |-> MapV([k \in {"null"} |-> Nil])]),
                             MapV([t2 \in {"quantity"} |->
                                     MapV([k \in {"int"} |-> Num(64)])]) >>)])

\* C29: type-name resolution.  The name of a pointed-to value is what its
\* value-level AvroName returns, else what its pointer-level AvroName
\* returns, else the codec's encoder applied to the Go type name; the union
\* key is the name when it is an Avro primitive name or the codec has no
\* namespace, and the namespace, a dot and the name otherwise; the namespace
\* is the one the schema text declares at its top level.
TypeNameResolution ==
    last.op = "getTypeName" =>
        LET t == last.type
            namespace == IF last.schema = "User" THEN "my.example" ELSE ""
            encoded == IF last.encoder = "DefaultTypeNameEncoder"
                       THEN CamelCaseToSnakeCase(GoToAvroType(t.name))
                       ELSE CamelCaseToSnakeCase(t.name)
        IN  /\ NewCodec(last.schema).codec.Namespace = namespace
            /\ last.name = CASE t = FakeIMGs -> "fake_imgs"
                             [] t = FakeURLs -> "fake_urls"
                             [] OTHER -> encoded
            /\ last.key = CASE last.name \in {"null", "boolean", "int", "long", "float",
                                              "double", "bytes", "string"} -> last.name
                            [] namespace = "" -> last.name
                            [] OTHER -> namespace \o "." \o last.name
            /\ (t = GoInt /\ last.encoder = "DefaultTypeNameEncoder") => last.key = "long"
            /\ (t = GoInt32 /\ last.encoder = "DefaultTypeNameEncoder") => last.key = "int"
            /\ (t = GoBool /\ last.encoder = "DefaultTypeNameEncoder") => last.key = "boolean"
            /\ t = GoString => last.key = "string"
            /\ (t = Address /\ last.schema = "User") => last.key = "my.example.address"

\* a type whose pointer names it, under a codec with a namespace
TypeNameResolutionWitness ==
    /\ last.op = "getTypeName"
    /\ last.type = FakeURLs
    /\ last.schema = "User"
    /\ last.name = "fake_urls"
    /\ last.key = "my.example.fake_urls"

\* C30 as stated: for a destination type whose pointer is a CustomUnmarshaler
\* the hook hands a raw string to UnmarshalAvro and answers with the value it
\* filled, and answers with an error, never a panic, when UnmarshalAvro
\* refuses or the raw value is no string.
CustomDecodeRouting ==
    (last.op = "decodeUnionHook" /\ IsCustomUnmarshaler(last.to) /\ last.data.k # "nil") =>
        IF last.data.k = "string" /\ last.to.unmarshaler = "takes"
        THEN last.err = "" /\ last.out = PtrV(last.data)
        ELSE last.err \notin {"", "panic"}

====
